---- MODULE Spec2Model ----
(***************************************************************************)
(* Contract lifecycle crew: the lifecycle run (flow/lifecycle_flow.py),    *)
(* the in-memory session store and the approval endpoints (api.py), the    *)
(* event history (streaming.py), the aggregate risk function               *)
(* (tools/risk_tools.py) and the approval policy (agents/approval_router,  *)
(* crews/approval_crew).                                                   *)
(*                                                                         *)
(* Specifications:                                                         *)
(*   Spec        the service as reached through its HTTP endpoints         *)
(*   SpecStore   the session store and the approval endpoints, with        *)
(*               sessions written through SessionManager.update_session    *)
(*   SpecRisk    calculate_risk_matrix applied to bounded finding lists    *)
(*   SpecPolicy  ApprovalCrew.kickoff applied to every risk/value/type     *)
(*   SpecLive    Spec with the lifecycle runs scheduled fairly             *)
(*   SpecBus     ContractEventStream: emit, subscribe, close and clear     *)
(*               with subscribers that keep reading their streams          *)
(*   SpecAbandon SpecBus with consumers that may abandon their streams     *)
(*   SpecPair    the event stream with two sessions                        *)
(*   SpecManager SessionManager: create_session, get_session and           *)
(*               update_session called with any keyword arguments          *)
(***************************************************************************)
EXTENDS Integers, Sequences, FiniteSets, TLC

VARIABLES
    settings,      \* Settings.auto_approve_threshold
    sessions,      \* SessionManager._sessions: id -> ContractSession
    flow,          \* per session: the ContractFlowState of its run, and the run's position
    history,       \* ContractEventStream._history: id -> list of events
    last,          \* the most recent call or run step and its outcome
    assessments,   \* SpecRisk: the argument of calculate_risk_matrix
    overall,       \* SpecRisk: its result
    chain_req,     \* SpecPolicy: the arguments of ApprovalCrew.kickoff
    chain_res,     \* SpecPolicy: the approval_decisions it returns
    queues,        \* ContractEventStream._queues: id -> list of subscriber queues
    subs,          \* the subscribers (subscribe generators) created so far
    emitted,       \* number of emit calls made on the event stream
    clock          \* SpecManager: the time datetime.now() last returned

vars == <<settings, sessions, flow, history, last,
          assessments, overall, chain_req, chain_res, queues, subs, emitted,
          clock>>

progVars   == <<settings, sessions, flow, history, clock>>
riskVars   == <<assessments, overall>>
policyVars == <<chain_req, chain_res>>
busVars    == <<queues, subs, emitted>>

----------------------------------------------------------------------------
(* Bounds *)

MaxFindings == 12     \* longest finding list given to calculate_risk_matrix in SpecRisk
MaxRunFindings == 2   \* longest finding list an analysis returns in a run
MaxVersions == 3      \* renegotiate is not called once a session has this many versions

----------------------------------------------------------------------------
(* Enumerations (models.py) *)

RiskLevels == {"low", "medium", "high", "critical"}

ContractTypes == {"nda", "saas_agreement", "vendor_msa", "employment",
                  "consulting", "licensing"}

ApprovalLevels == {"auto", "manager", "vp", "legal", "cfo"}

LifecycleStages == {"intake", "analyzing", "risk_assessing", "negotiating",
                    "awaiting_approval", "approved", "rejected",
                    "renegotiating", "executed", "failed"}

\* Low < Medium < High < Critical, the order the specification speaks of.
SeverityRank(level) ==
    CASE level = "low" -> 1
      [] level = "medium" -> 2
      [] level = "high" -> 3
      [] level = "critical" -> 4

----------------------------------------------------------------------------
(* Sequence helpers standing for the Python list operations used *)

Contains(seq, x) == \E i \in 1..Len(seq) : seq[i] = x

\* "if x not in chain: chain.append(x)"
AppendIfAbsent(seq, x) == IF Contains(seq, x) THEN seq ELSE Append(seq, x)

RECURSIVE AppendAllIfAbsent(_, _)
AppendAllIfAbsent(seq, xs) ==
    IF xs = <<>> THEN seq
    ELSE AppendAllIfAbsent(AppendIfAbsent(seq, Head(xs)), Tail(xs))

\* list.remove(x): drops the first occurrence
RECURSIVE Remove(_, _)
Remove(seq, x) ==
    IF seq = <<>> THEN <<>>
    ELSE IF Head(seq) = x THEN Tail(seq)
    ELSE <<Head(seq)>> \o Remove(Tail(seq), x)

RECURSIVE Repeat(_, _)
Repeat(x, n) == IF n = 0 THEN <<>> ELSE <<x>> \o Repeat(x, n - 1)

----------------------------------------------------------------------------
(* tools/risk_tools.py: the aggregate risk function *)

\* _RISK_WEIGHTS
RiskWeight(level) ==
    CASE level = "low" -> 1
      [] level = "medium" -> 2
      [] level = "high" -> 3
      [] level = "critical" -> 4

\* RiskLevel is a str-mixin Enum: its members compare as their string values,
\* "critical" < "high" < "low" < "medium".  StrOrder is the position of a
\* member's value in that lexicographic order.
StrOrder(level) ==
    CASE level = "critical" -> 1
      [] level = "high" -> 2
      [] level = "low" -> 3
      [] level = "medium" -> 4

\* Python's max(a, b) on two RiskLevel members: b if b > a (as strings), else a.
PyMax(a, b) == IF StrOrder(b) > StrOrder(a) THEN b ELSE a

\* _score_to_level(total / n).  The float comparisons avg <= 1.5, <= 2.2 and
\* <= 3.0 are the exact rational ones for every list length used here
\* (1.5 and 3.0 are doubles, and no quotient total/n with n < 40 rounds
\* across 2.2), so they are stated on integers: 10*total <= 15*n, ...
ScoreToLevel(total, n) ==
    IF 10 * total <= 15 * n THEN "low"
    ELSE IF 10 * total <= 22 * n THEN "medium"
    ELSE IF 10 * total <= 30 * n THEN "high"
    ELSE "critical"

RECURSIVE TotalWeight(_)
TotalWeight(levels) ==
    IF levels = <<>> THEN 0
    ELSE RiskWeight(Head(levels)) + TotalWeight(Tail(levels))

HasLevel(levels, level) == \E i \in 1..Len(levels) : levels[i] = level

\* calculate_risk_matrix(assessments); an assessment is modelled by its risk_level.
calculate_risk_matrix(levels) ==
    IF levels = <<>> THEN "low"
    ELSE LET total == TotalWeight(levels)
             n == Len(levels)
         IN  IF HasLevel(levels, "critical")
                THEN PyMax("high", ScoreToLevel(total, n))
             ELSE IF HasLevel(levels, "high") /\ total > 2 * n
                THEN "high"
             ELSE ScoreToLevel(total, n)

----------------------------------------------------------------------------
(* agents/approval_router.py and crews/approval_crew.py: the approval policy *)

\* _VALUE_THRESHOLDS
ManagerThreshold == 50000
VpThreshold == 250000
LegalThreshold == 500000
CfoThreshold == 1000000
\* the literal 250_000 of ApprovalCrew._validate_chain
ValidateVpThreshold == 250000

\* seniority_order.index(level)
SeniorityIndex(level) ==
    CASE level = "auto" -> 0
      [] level = "manager" -> 1
      [] level = "vp" -> 2
      [] level = "legal" -> 3
      [] level = "cfo" -> 4

\* list.sort(key=seniority_order.index): a stable sort, here by insertion
RECURSIVE InsertBySeniority(_, _)
InsertBySeniority(sorted, level) ==
    IF sorted = <<>> THEN <<level>>
    ELSE IF SeniorityIndex(level) < SeniorityIndex(Head(sorted))
            THEN <<level>> \o sorted
    ELSE <<Head(sorted)>> \o InsertBySeniority(Tail(sorted), level)

RECURSIVE SortBySeniority(_)
SortBySeniority(chain) ==
    IF chain = <<>> THEN <<>>
    ELSE InsertBySeniority(SortBySeniority(SubSeq(chain, 1, Len(chain) - 1)),
                           chain[Len(chain)])

\* Risk-based routing (approval_router.py lines 111-126)
RiskChain(risk) ==
    CASE risk = "low" -> <<"auto">>
      [] risk = "medium" -> <<"manager">>
      [] risk = "high" -> <<"manager", "vp", "legal">>
      [] risk = "critical" -> <<"manager", "vp", "legal", "cfo">>

\* Value-based escalation (lines 128-144)
ValueEscalation(chain, value) ==
    IF value >= CfoThreshold
        THEN AppendAllIfAbsent(chain, <<"manager", "vp", "legal", "cfo">>)
    ELSE IF value >= LegalThreshold
        THEN AppendAllIfAbsent(chain, <<"manager", "vp", "legal">>)
    ELSE IF value >= VpThreshold
        THEN AppendAllIfAbsent(chain, <<"manager", "vp">>)
    ELSE IF value >= ManagerThreshold
        THEN AppendIfAbsent(chain, "manager")
    ELSE chain

\* Contract type overrides (lines 146-152)
TypeOverride(chain, ctype) ==
    IF ctype = "employment" \/ ctype = "licensing"
        THEN AppendIfAbsent(chain, "legal")
    ELSE chain

\* The step below with the removal left out.
RemoveAutoSkipped(chain) == chain

\* "Remove AUTO if any human approval is needed" (lines 154-156)
RemoveAuto(chain) ==
    IF Len(chain) > 1 /\ Contains(chain, "auto") THEN Remove(chain, "auto")
    ELSE chain

\* ApprovalRouterAgent.determine_approval_chain
determine_approval_chain(risk, value, ctype) ==
    SortBySeniority(
        RemoveAuto(TypeOverride(ValueEscalation(RiskChain(risk), value), ctype)))

\* ApprovalCrew._validate_chain: the validated chain (the notes are not modelled)
validate_chain(chain, risk, value, ctype) ==
    LET v1 == IF ctype = "employment" THEN AppendIfAbsent(chain, "legal") ELSE chain
        v2 == IF value >= ValidateVpThreshold THEN AppendIfAbsent(v1, "vp") ELSE v1
        v3 == IF risk = "critical" THEN AppendIfAbsent(v2, "cfo") ELSE v2
        v4 == IF risk # "low" /\ Contains(v3, "auto")
                 THEN AppendIfAbsent(Remove(v3, "auto"), "manager")
              ELSE v3
    IN  SortBySeniority(v4)

\* _DEFAULT_APPROVERS
DefaultApprover(level) ==
    CASE level = "auto" -> "System (Auto-Approval)"
      [] level = "manager" -> "Department Manager"
      [] level = "vp" -> "VP of Operations"
      [] level = "legal" -> "General Counsel"
      [] level = "cfo" -> "Chief Financial Officer"

\* ApprovalRouterAgent.create_approval_decisions
create_approval_decisions(chain) ==
    [i \in 1..Len(chain) |->
        [level |-> chain[i], approver |-> DefaultApprover(chain[i]),
         decision |-> "pending", comments |-> ""]]

\* ApprovalCrew.kickoff: result["approval_decisions"]
ApprovalCrewKickoff(risk, value, ctype) ==
    create_approval_decisions(
        validate_chain(determine_approval_chain(risk, value, ctype),
                       risk, value, ctype))

\* One contract value below and one at each threshold of the policy.
ContractValues ==
    {0} \cup UNION {{t - 1, t} : t \in {ManagerThreshold, VpThreshold,
                                        LegalThreshold, CfoThreshold}}

----------------------------------------------------------------------------
(* The outcome of the most recent call or step *)

Outcome(op, sid, status) == [op |-> op, sid |-> sid, status |-> status]

NoCall == Outcome("none", "-", 0)

\* Values of the variables a specification does not use
IdleProgram ==
    /\ settings = "low"
    /\ sessions = <<>>
    /\ flow = <<>>
    /\ history = <<>>
    /\ clock = 0

IdleRisk == assessments = <<>> /\ overall = "unset"

IdlePolicy ==
    /\ chain_req = [risk |-> "low", value |-> 0, ctype |-> "nda"]
    /\ chain_res = <<>>

\* No subscriber has been registered on the event stream
IdleBus ==
    /\ queues = <<>>
    /\ subs = <<>>
    /\ emitted = 0

----------------------------------------------------------------------------
(* SpecRisk: calculate_risk_matrix on every finding list of up to            *)
(* MaxFindings entries.  The function reads a list only through its sum and  *)
(* through membership, so one list per multiset of severities is drawn; the  *)
(* single-severity raise then acts on every position of it.                  *)

FindingLists(maxLen) ==
    { Repeat("low", c[1]) \o Repeat("medium", c[2]) \o
      Repeat("high", c[3]) \o Repeat("critical", c[4]) :
        c \in { d \in [1..4 -> 0..maxLen] : d[1] + d[2] + d[3] + d[4] <= maxLen } }

InitRisk ==
    /\ IdleProgram /\ IdlePolicy /\ IdleBus
    /\ assessments \in FindingLists(MaxFindings)
    /\ overall = "unset"
    /\ last = NoCall

\* overall = calculate_risk_matrix(assessments)
CalcRisk ==
    /\ last.op = "none"
    /\ overall' = calculate_risk_matrix(assessments)
    /\ last' = Outcome("calculate_risk_matrix", "-", 0)
    /\ UNCHANGED <<assessments, progVars, policyVars, busVars>>

\* The same call after one finding's severity has been raised.
RaiseSeverity(i, level) ==
    /\ last.op = "calculate_risk_matrix"
    /\ SeverityRank(level) > SeverityRank(assessments[i])
    /\ assessments' = [assessments EXCEPT ![i] = level]
    /\ overall' = calculate_risk_matrix(assessments')
    /\ last' = Outcome("raise_severity", "-", 0)
    /\ UNCHANGED <<progVars, policyVars, busVars>>

NextRisk ==
    \/ CalcRisk
    \/ \E i \in 1..Len(assessments), level \in RiskLevels : RaiseSeverity(i, level)

SpecRisk == InitRisk /\ [][NextRisk]_vars

----------------------------------------------------------------------------
(* SpecPolicy: ApprovalCrew.kickoff on every risk level, value band and type *)

InitPolicy ==
    /\ IdleProgram /\ IdleRisk /\ IdleBus
    /\ chain_req \in [risk : RiskLevels, value : ContractValues, ctype : ContractTypes]
    /\ chain_res = <<>>
    /\ last = NoCall

Kickoff ==
    /\ last.op = "none"
    /\ chain_res' = ApprovalCrewKickoff(chain_req.risk, chain_req.value, chain_req.ctype)
    /\ last' = Outcome("approval_crew_kickoff", "-", 0)
    /\ UNCHANGED <<chain_req, progVars, riskVars, busVars>>

NextPolicy == Kickoff

SpecPolicy == InitPolicy /\ [][NextPolicy]_vars

----------------------------------------------------------------------------
(* flow/conditions.py: routing *)

\* A router that also sends Medium to auto_approve
risk_level_check_lenient(risk) ==
    IF risk \in {"low", "medium"} THEN "auto_approve" ELSE "full_negotiation"

\* risk_level_check
risk_level_check(risk) ==
    IF risk = "low" THEN "auto_approve"
    ELSE IF risk = "medium" THEN "standard_review"
    ELSE "full_negotiation"

\* A threshold table whose ceiling is exclusive: nothing is covered by "low".
AllowedRisksExclusive(threshold) ==
    CASE threshold = "medium" -> {"low"}
      [] threshold = "high" -> {"low", "medium"}
      [] OTHER -> {}

\* threshold_map.get(auto_approve_threshold.lower(), {RiskLevel.LOW})
AllowedRisks(threshold) ==
    CASE threshold = "low" -> {"low"}
      [] threshold = "medium" -> {"low", "medium"}
      [] threshold = "high" -> {"low", "medium", "high"}
      [] OTHER -> {"low"}

\* approval_threshold
approval_threshold(risk, threshold) == risk \in AllowedRisks(threshold)

\* Settings.auto_approve_threshold: the three known ceilings and an unknown string
Thresholds == {"low", "medium", "high", "off"}

----------------------------------------------------------------------------
(* Inputs *)

\* Session ids are uuid4 strings.  An id is unknown to the store until
\* create_session has handed it out, so a request may name it before that.
SessionIds == {"s1"}

\* len(contract_text.strip()) < 50 in _intake
MinTextLen == 50
\* ContractSubmitRequest.contract_text: min_length=50
SubmitMinLength == 50
\* the too-short text of the specification's scenario
ShortTextLen == 10

\* A contract text is modelled by its length and its length after strip().
TextLens == {ShortTextLen, MinTextLen - 1, MinTextLen}
Texts == { t \in [len : TextLens, stripped : TextLens \cup {0}] : t.stripped <= t.len }

NoAnalysis == [present |-> FALSE, total_value |-> 0, contract_type |-> "none"]

\* What AnalysisCrew.kickoff returns: the findings (by severity), the contract
\* value and the contract type.
AnalysisResults(findings, values, ctypes) ==
    [risks : findings, total_value : values, contract_type : ctypes]

\* One Critical finding among five Low ones: mean weight 1.5
DilutedCritical == <<"low", "low", "low", "low", "low", "critical">>

RunFindings == FindingLists(MaxRunFindings) \cup {DilutedCritical}
RunValues == {0, CfoThreshold}
RunTypes == {"nda", "employment"}

\* The analyses used where sessions are then driven through the approval endpoints.
StoreAnalyses ==
    { [risks |-> <<"low">>, total_value |-> 0, contract_type |-> "nda"],
      [risks |-> <<"medium">>, total_value |-> 0, contract_type |-> "nda"],
      [risks |-> <<"medium", "medium">>, total_value |-> VpThreshold,
       contract_type |-> "nda"],
      [risks |-> <<"medium", "high">>, total_value |-> 0,
       contract_type |-> "employment"] }

ApproveRequests ==
    { [approver |-> "", comments |-> ""],
      [approver |-> "alice", comments |-> "ok"] }

\* RejectRequest.comments has min_length=1
RejectRequests ==
    { [approver |-> "", comments |-> ""],
      [approver |-> "bob", comments |-> "no"] }

RenegotiateRequests ==
    { [counter_terms |-> <<>>, comments |-> ""],
      [counter_terms |-> <<"c1">>, comments |-> "notes"] }

----------------------------------------------------------------------------
(* streaming.py: ContractEventStream *)

Event(sid, type, data) == [event_type |-> type, session_id |-> sid, data |-> data]

\* emit: self._history.setdefault(session_id, []).append(event)
EmitOne(h, ev) ==
    IF ev.session_id \in DOMAIN h
        THEN [h EXCEPT ![ev.session_id] = Append(@, ev)]
    ELSE (ev.session_id :> <<ev>>) @@ h

\* consecutive emit calls made last first
RECURSIVE EmitAllReversed(_, _)
EmitAllReversed(h, evs) ==
    IF evs = <<>> THEN h ELSE EmitOne(EmitAllReversed(h, Tail(evs)), Head(evs))

\* consecutive emit calls, in order
RECURSIVE EmitAll(_, _)
EmitAll(h, evs) ==
    IF evs = <<>> THEN h ELSE EmitAll(EmitOne(h, Head(evs)), Tail(evs))

\* get_history
get_history(sid) == IF sid \in DOMAIN history THEN history[sid] ELSE <<>>

EventTypes(sid) == [i \in 1..Len(get_history(sid)) |-> get_history(sid)[i].event_type]

----------------------------------------------------------------------------
(* api.py: SessionManager *)

\* A session created in AwaitingApproval
NewSessionAwaiting(text) ==
    [state |-> "awaiting_approval", contract_text |-> text, contract_type |-> "none",
     analysis |-> NoAnalysis, risk_assessments |-> <<>>, negotiations |-> 0,
     approval_chain |-> <<>>, versions |-> <<>>, overall_risk |-> "none",
     error |-> "none"]

\* create_session
NewSession(text) ==
    [state |-> "intake", contract_text |-> text, contract_type |-> "none",
     analysis |-> NoAnalysis, risk_assessments |-> <<>>, negotiations |-> 0,
     approval_chain |-> <<>>, versions |-> <<>>, overall_risk |-> "none",
     error |-> "none"]

\* update_session(session_id, **kwargs): setattr for every key the session has
update_session(store, sid, fields) ==
    [store EXCEPT ![sid] =
        [k \in DOMAIN @ |-> IF k \in DOMAIN fields THEN fields[k] ELSE @[k]]]

----------------------------------------------------------------------------
(* flow/state.py and flow/lifecycle_flow.py: the lifecycle run *)

\* ContractFlowState(session_id, contract_text), and the run at its first step
NewFlow(text) ==
    [pc |-> "intake", contract_text |-> text, stage |-> "intake",
     analysis |-> NoAnalysis, risks |-> <<>>, negotiations |-> 0,
     approval_chain |-> <<>>, overall_risk |-> "none", versions |-> <<>>,
     error |-> "none"]

\* A version that is always numbered 1
ContractVersionOne(n, changes) == [version |-> 1, changes |-> changes]

\* ContractVersion(version=n, changes=[...])
ContractVersion(n, changes) == [version |-> n, changes |-> changes]

\* An except branch that records the error and leaves the stage as it was
RaisedKeepsStage(f, msg) == [f EXCEPT !.error = msg, !.pc = "persist"]

\* run's except branch: state.error, state.stage = FAILED, emit(error); return state
Raised(f, msg) == [f EXCEPT !.error = msg, !.stage = "failed", !.pc = "persist"]

RunStep(sid, step) ==
    /\ sid \in DOMAIN flow
    /\ flow[sid].pc = step
    /\ last' = Outcome(step, sid, 0)
    /\ UNCHANGED <<settings, clock, riskVars, policyVars, busVars>>

\* _intake's validation without strip(): len(state.contract_text) < 50
IntakeValidUnstripped(text) == text.len >= MinTextLen

\* _intake: "not state.contract_text or len(state.contract_text.strip()) < 50"
IntakeValid(text) == text.len > 0 /\ text.stripped >= MinTextLen

\* _intake
Intake(sid) ==
    /\ RunStep(sid, "intake")
    /\ LET f == [flow[sid] EXCEPT !.stage = "intake"]
           msg == "Contract text is too short. Minimum 50 characters required."
       IN  IF ~IntakeValid(f.contract_text)
              THEN /\ flow' = [flow EXCEPT ![sid] = Raised(f, msg)]
                   /\ history' = EmitAll(history, <<Event(sid, "intake", ""),
                                                    Event(sid, "error", msg)>>)
           ELSE /\ flow' = [flow EXCEPT ![sid] =
                       [f EXCEPT !.versions = Append(@, ContractVersion(1, <<"initial">>)),
                                 !.pc = "analyze"]]
                /\ history' = EmitAll(history, <<Event(sid, "intake", "")>>)
    /\ UNCHANGED sessions

\* _analyze; ok = FALSE when AnalysisCrew.kickoff raises
Analyze(sid, result, ok) ==
    /\ RunStep(sid, "analyze")
    /\ LET f == [flow[sid] EXCEPT !.stage = "analyzing"]
           started == <<Event(sid, "analyzing", ""), Event(sid, "extracting_clauses", "")>>
       IN  IF ~ok
              THEN /\ flow' = [flow EXCEPT ![sid] = Raised(f, "provider error")]
                   /\ history' = EmitAll(history,
                                   started \o <<Event(sid, "error", "provider error")>>)
           ELSE /\ flow' = [flow EXCEPT ![sid] =
                       [f EXCEPT !.analysis = [present |-> TRUE,
                                               total_value |-> result.total_value,
                                               contract_type |-> result.contract_type],
                                 !.risks = result.risks,
                                 !.pc = "assess_risk"]]
                /\ history' = EmitAll(history,
                                started \o <<Event(sid, "clauses_extracted", ""),
                                             Event(sid, "analysis_complete", "")>>)
    /\ UNCHANGED sessions

\* _assess_risk
AssessRisk(sid) ==
    /\ RunStep(sid, "assess_risk")
    /\ LET risk == calculate_risk_matrix(flow[sid].risks)
       IN  /\ flow' = [flow EXCEPT ![sid] =
                  [@ EXCEPT !.stage = "risk_assessing", !.overall_risk = risk,
                            !.pc = "route"]]
           /\ history' = EmitAll(history, <<Event(sid, "risk_assessing", ""),
                                            Event(sid, "risk_assessment_done", risk)>>)
    /\ UNCHANGED sessions

\* "state.overall_risk or RiskLevel.X"
RiskOr(risk, default) == IF risk = "none" THEN default ELSE risk

\* run, lines 122-143: the branch taken after risk assessment
Branch(risk, threshold) ==
    LET route == risk_level_check(risk)
    IN  IF route = "auto_approve"
           THEN IF approval_threshold(risk, threshold) THEN "auto_approve"
                ELSE "standard_review"
        ELSE IF route = "standard_review" THEN "standard_review"
        ELSE "negotiate"

Route(sid) ==
    /\ RunStep(sid, "route")
    /\ flow' = [flow EXCEPT ![sid].pc =
                   Branch(RiskOr(flow[sid].overall_risk, "low"), settings)]
    /\ UNCHANGED <<sessions, history>>

\* _auto_approve
AutoApprove(sid) ==
    /\ RunStep(sid, "auto_approve")
    /\ flow' = [flow EXCEPT ![sid] =
           [@ EXCEPT !.stage = "approved",
                     !.approval_chain =
                         <<[level |-> "auto", approver |-> "System (Auto-Approval)",
                            decision |-> "approved", comments |-> "auto-approved"]>>,
                     !.pc = "execute"]]
    /\ history' = EmitAll(history, <<Event(sid, "approved", "auto")>>)
    /\ UNCHANGED sessions

\* The arguments _standard_review and _multi_level_approval give ApprovalCrew.kickoff
FlowValue(f) == IF f.analysis.present THEN f.analysis.total_value ELSE 0
FlowType(f) == IF f.analysis.present THEN f.analysis.contract_type ELSE "consulting"

\* The common body of _standard_review and _multi_level_approval
ApprovalStep(sid, step, defaultRisk, ok) ==
    /\ RunStep(sid, step)
    /\ LET f == flow[sid]
           routed == <<Event(sid, "routing_approval", step)>>
       IN  IF ~ok
              THEN /\ flow' = [flow EXCEPT ![sid] = Raised(f, "provider error")]
                   /\ history' = EmitAll(history,
                                   routed \o <<Event(sid, "error", "provider error")>>)
           ELSE /\ flow' = [flow EXCEPT ![sid] =
                       [f EXCEPT !.approval_chain =
                                     ApprovalCrewKickoff(RiskOr(f.overall_risk, defaultRisk),
                                                         FlowValue(f), FlowType(f)),
                                 !.stage = "awaiting_approval",
                                 !.pc = "execute"]]
                /\ history' = EmitAll(history,
                                routed \o <<Event(sid, "awaiting_approval", "")>>)
    /\ UNCHANGED sessions

\* _standard_review; ok = FALSE when ApprovalCrew.kickoff raises
StandardReview(sid, ok) == ApprovalStep(sid, "standard_review", "medium", ok)

\* _multi_level_approval
MultiLevelApproval(sid, ok) == ApprovalStep(sid, "multi_level_approval", "high", ok)

HighCriticalCount(risks) ==
    Cardinality({i \in 1..Len(risks) : risks[i] \in {"high", "critical"}})

\* _negotiate; npos positions come back from NegotiationCrew.kickoff, at most one
\* per High or Critical finding; ok = FALSE when it raises
Negotiate(sid, npos, ok) ==
    /\ RunStep(sid, "negotiate")
    /\ npos <= HighCriticalCount(flow[sid].risks)
    /\ LET f == [flow[sid] EXCEPT !.stage = "negotiating"]
           started == <<Event(sid, "negotiating", "")>>
       IN  IF ~ok
              THEN /\ npos = 0
                   /\ flow' = [flow EXCEPT ![sid] = Raised(f, "provider error")]
                   /\ history' = EmitAll(history,
                                   started \o <<Event(sid, "error", "provider error")>>)
           ELSE /\ flow' = [flow EXCEPT ![sid] =
                       [f EXCEPT !.negotiations = npos,
                                 !.versions = Append(@,
                                     ContractVersion(Len(@) + 1, Repeat("position", npos))),
                                 !.pc = "multi_level_approval"]]
                /\ history' = EmitAll(history,
                                started \o <<Event(sid, "negotiation_strategy_ready", "")>>)
    /\ UNCHANGED sessions

\* run, lines 145-147, and _execute
RunExecute(sid) ==
    /\ RunStep(sid, "execute")
    /\ IF flow[sid].stage \in {"approved", "awaiting_approval"}
          THEN /\ flow' = [flow EXCEPT ![sid] =
                      [@ EXCEPT !.stage = "executed",
                                !.versions = Append(@,
                                    ContractVersion(Len(@) + 1, <<"executed">>)),
                                !.pc = "complete"]]
               /\ history' = EmitAll(history, <<Event(sid, "executed", "")>>)
       ELSE /\ flow' = [flow EXCEPT ![sid].pc = "complete"]
            /\ UNCHANGED history
    /\ UNCHANGED sessions

\* run, lines 149-155: emit(completed)
Complete(sid) ==
    /\ RunStep(sid, "complete")
    /\ flow' = [flow EXCEPT ![sid].pc = "persist"]
    /\ history' = EmitAll(history, <<Event(sid, "completed", flow[sid].stage)>>)
    /\ UNCHANGED sessions

\* A persist that writes the stage and the error and nothing else
PersistFieldsStageOnly(f) == [state |-> f.stage, error |-> f.error]

\* The keyword arguments _run_flow gives update_session
PersistFields(f) ==
    [state |-> f.stage,
     contract_type |-> IF f.analysis.present THEN f.analysis.contract_type ELSE "none",
     analysis |-> f.analysis,
     risk_assessments |-> f.risks,
     negotiations |-> f.negotiations,
     approval_chain |-> f.approval_chain,
     versions |-> f.versions,
     overall_risk |-> f.overall_risk,
     error |-> f.error]

\* _run_flow after flow.run has returned: "Persist results to session"
Persist(sid) ==
    /\ RunStep(sid, "persist")
    /\ sessions' = update_session(sessions, sid, PersistFields(flow[sid]))
    /\ flow' = [flow EXCEPT ![sid].pc = "done"]
    /\ UNCHANGED history

----------------------------------------------------------------------------
(* api.py: the endpoints *)

Call(op, sid, status) ==
    /\ last' = Outcome(op, sid, status)
    /\ UNCHANGED <<settings, clock, riskVars, policyVars, busVars>>

\* A call that is answered with an error status and touches nothing
Refused(op, sid, status) ==
    /\ Call(op, sid, status)
    /\ UNCHANGED <<sessions, flow, history>>

\* POST /contracts: submit_contract, up to asyncio.create_task(_run_flow())
Submit(text) ==
    IF text.len < SubmitMinLength
       THEN Refused("submit", "-", 422)
    ELSE \E sid \in SessionIds \ DOMAIN sessions :
            /\ sessions' = (sid :> NewSession(text)) @@ sessions
            /\ flow' = (sid :> NewFlow(text)) @@ flow
            /\ Call("submit", sid, 200)
            /\ UNCHANGED history

\* Index of the last pending decision of a chain, 0 if there is none
LastPending(chain) ==
    IF \E i \in 1..Len(chain) : chain[i].decision = "pending"
       THEN CHOOSE i \in 1..Len(chain) :
                /\ chain[i].decision = "pending"
                /\ \A j \in (i + 1)..Len(chain) : chain[j].decision # "pending"
    ELSE 0

\* Index of the first pending decision of a chain, 0 if there is none
FirstPending(chain) ==
    IF \E i \in 1..Len(chain) : chain[i].decision = "pending"
       THEN CHOOSE i \in 1..Len(chain) :
                /\ chain[i].decision = "pending"
                /\ \A j \in 1..(i - 1) : chain[j].decision # "pending"
    ELSE 0

\* "req.approver or decision.approver"
ApproverOr(approver, default) == IF approver = "" THEN default ELSE approver

\* A loop without its break: every pending decision takes the verdict
DecideEvery(chain, verdict, req) ==
    [i \in 1..Len(chain) |->
        IF chain[i].decision = "pending"
           THEN [chain[i] EXCEPT !.decision = verdict,
                                 !.approver = ApproverOr(req.approver, @),
                                 !.comments = req.comments]
        ELSE chain[i]]

\* The loop of approve_contract and reject_contract: the first pending decision
\* takes the verdict, the request's approver and its comments.
Decide(chain, verdict, req) ==
    LET i == FirstPending(chain)
    IN  IF i = 0 THEN chain
        ELSE [chain EXCEPT ![i] =
                 [@ EXCEPT !.decision = verdict,
                           !.approver = ApproverOr(req.approver, @),
                           !.comments = req.comments]]

\* any() where the endpoint has all()
AnyApproved(chain) == \E i \in 1..Len(chain) : chain[i].decision = "approved"

\* all(d.decision == "approved" for d in session.approval_chain)
AllApproved(chain) == \A i \in 1..Len(chain) : chain[i].decision = "approved"

\* POST /contracts/{id}/approve
ApproveContract(sid, req) ==
    IF sid \notin DOMAIN sessions
       THEN Refused("approve", sid, 404)
    ELSE IF sessions[sid].state # "awaiting_approval"
       THEN Refused("approve", sid, 400)
    ELSE IF FirstPending(sessions[sid].approval_chain) = 0
       THEN Refused("approve", sid, 400)
    ELSE LET chain == Decide(sessions[sid].approval_chain, "approved", req)
             next == FirstPending(chain)
         IN  /\ IF AllApproved(chain)
                   THEN /\ sessions' = [sessions EXCEPT ![sid].approval_chain = chain,
                                                        ![sid].state = "approved"]
                        /\ history' = EmitAll(history, <<Event(sid, "approved", "")>>)
                ELSE /\ sessions' = [sessions EXCEPT ![sid].approval_chain = chain]
                     /\ history' = EmitAll(history,
                            <<Event(sid, "approval_progress",
                                    IF next = 0 THEN "none" ELSE chain[next].level)>>)
             /\ Call("approve", sid, 200)
             /\ UNCHANGED flow

\* reject_contract's stage check, and the check left out
RejectAllowedAnywhere(state) == TRUE

\* "if session.state != LifecycleStage.AWAITING_APPROVAL: raise HTTPException(400)"
RejectAllowed(state) == state = "awaiting_approval"

\* POST /contracts/{id}/reject
RejectContract(sid, req) ==
    IF req.comments = ""
       THEN Refused("reject", sid, 422)
    ELSE IF sid \notin DOMAIN sessions
       THEN Refused("reject", sid, 404)
    ELSE IF ~RejectAllowed(sessions[sid].state)
       THEN Refused("reject", sid, 400)
    ELSE /\ sessions' = [sessions EXCEPT
                ![sid].state = "rejected",
                ![sid].approval_chain = Decide(@, "rejected", req)]
         /\ history' = EmitAll(history, <<Event(sid, "rejected", req.comments)>>)
         /\ Call("reject", sid, 200)
         /\ UNCHANGED flow

\* The changes recorded by renegotiate_contract: one per counter-term, then the notes
RenegotiationChanges(req) ==
    [i \in 1..Len(req.counter_terms) |-> "counter_terms"]
        \o (IF req.comments # "" THEN <<"notes">> ELSE <<>>)

\* A reset that clears the decision but keeps the comments
ResetChainKeepingComments(chain) ==
    [i \in 1..Len(chain) |-> [chain[i] EXCEPT !.decision = "pending"]]

\* "Reset approval chain to pending"
ResetChain(chain) ==
    [i \in 1..Len(chain) |-> [chain[i] EXCEPT !.decision = "pending", !.comments = ""]]

\* A renegotiation that hands the contract back to negotiation
RenegotiateStagesToNegotiating == <<"renegotiating", "negotiating">>

\* The stages renegotiate_contract assigns to session.state, in order
RenegotiateStages == <<"renegotiating", "awaiting_approval">>

\* POST /contracts/{id}/renegotiate
RenegotiateContract(sid, req) ==
    IF sid \notin DOMAIN sessions
       THEN Refused("renegotiate", sid, 404)
    ELSE IF sessions[sid].state \notin {"awaiting_approval", "rejected", "negotiating"}
       THEN Refused("renegotiate", sid, 400)
    ELSE /\ Len(sessions[sid].versions) < MaxVersions
         /\ sessions' = [sessions EXCEPT
                ![sid].versions =
                    Append(@, ContractVersion(Len(@) + 1, RenegotiationChanges(req))),
                ![sid].approval_chain = ResetChain(@),
                ![sid].state = RenegotiateStages[Len(RenegotiateStages)]]
         /\ history' = EmitAll(history, <<Event(sid, "renegotiating", "")>>)
         /\ Call("renegotiate", sid, 200)
         /\ UNCHANGED flow

\* An execute that can be repeated on an executed contract
ExecuteAllowedAgain(state) == state \in {"approved", "executed"}

\* "if session.state != LifecycleStage.APPROVED: raise HTTPException(400)"
ExecuteAllowed(state) == state = "approved"

\* POST /contracts/{id}/execute
ExecuteContract(sid) ==
    IF sid \notin DOMAIN sessions
       THEN Refused("execute", sid, 404)
    ELSE IF ~ExecuteAllowed(sessions[sid].state)
       THEN Refused("execute", sid, 400)
    ELSE /\ sessions' = [sessions EXCEPT
                ![sid].state = "executed",
                ![sid].versions = Append(@, ContractVersion(Len(@) + 1, <<"executed">>))]
         /\ Call("execute", sid, 200)
         /\ UNCHANGED <<flow, history>>

----------------------------------------------------------------------------
(* Spec: the service as its endpoints and the runs they start drive it *)

Init ==
    /\ settings \in Thresholds
    /\ sessions = <<>>
    /\ flow = <<>>
    /\ history = <<>>
    /\ clock = 0
    /\ last = NoCall
    /\ IdleRisk /\ IdlePolicy /\ IdleBus

RunNext(analyses) ==
    \E sid \in SessionIds :
        \/ Intake(sid)
        \/ \E result \in analyses, ok \in BOOLEAN : Analyze(sid, result, ok)
        \/ AssessRisk(sid)
        \/ Route(sid)
        \/ AutoApprove(sid)
        \/ \E ok \in BOOLEAN : StandardReview(sid, ok)
        \/ \E npos \in 0..(MaxRunFindings + 1), ok \in BOOLEAN : Negotiate(sid, npos, ok)
        \/ \E ok \in BOOLEAN : MultiLevelApproval(sid, ok)
        \/ RunExecute(sid)
        \/ Complete(sid)
        \/ Persist(sid)

EndpointNext ==
    \/ \E text \in Texts : Submit(text)
    \/ \E sid \in SessionIds :
        \/ \E req \in ApproveRequests : ApproveContract(sid, req)
        \/ \E req \in RejectRequests : RejectContract(sid, req)
        \/ \E req \in RenegotiateRequests : RenegotiateContract(sid, req)
        \/ ExecuteContract(sid)

Next ==
    \/ RunNext(AnalysisResults(RunFindings, RunValues, RunTypes))
    \/ EndpointNext

Spec == Init /\ [][Next]_vars

\* The run is an asyncio task: the event loop resumes it after each of its
\* awaits, and every provider call returns or raises.
SpecLive ==
    /\ Init
    /\ [][Next]_vars
    /\ WF_vars(RunNext(AnalysisResults(RunFindings, RunValues, RunTypes)))

----------------------------------------------------------------------------
(* SpecStore: the session store written through update_session with the state *)
(* of a run as of any of its steps, and the approval endpoints acting on it.  *)

\* update_session with the fields of a run's state, the run not continuing
UpdateSession(sid) ==
    /\ sid \in DOMAIN flow
    /\ flow[sid].pc \notin {"intake", "persist", "done"}
    /\ sessions' = update_session(sessions, sid, PersistFields(flow[sid]))
    /\ flow' = [flow EXCEPT ![sid].pc = "done"]
    /\ Call("update_session", sid, 0)
    /\ UNCHANGED history

InitStore ==
    /\ settings = "low"
    /\ sessions = <<>>
    /\ flow = <<>>
    /\ history = <<>>
    /\ clock = 0
    /\ last = NoCall
    /\ IdleRisk /\ IdlePolicy /\ IdleBus

NextStore ==
    \/ RunNext(StoreAnalyses)
    \/ \E sid \in SessionIds : UpdateSession(sid)
    \/ EndpointNext

SpecStore == InitStore /\ [][NextStore]_vars

----------------------------------------------------------------------------
(* api.py: SessionManager on its own (SpecManager).  A stored session here   *)
(* also carries the two timestamps of ContractSession.                       *)

MaxClock == 3   \* calls that read datetime.now()

\* uuid4 strings: create_session never hands out an id twice
ManagerIds == {"s1", "s2"}

\* ContractSession(id=..., state=INTAKE, contract_text=..., created_at=now, updated_at=now)
StampedSession(text, now) ==
    LET s == NewSession(text)
    IN  [k \in DOMAIN s \cup {"created_at", "updated_at"} |->
            IF k \in DOMAIN s THEN s[k] ELSE now]

\* Attributes every ContractSession instance has without their being fields of
\* its schema: the methods it inherits from BaseModel.  One stands for all.
ModelAttributes == {"model_dump"}

\* hasattr(session, key)
HasAttr(s, key) == key \in DOMAIN s \/ key \in ModelAttributes

\* The keyword arguments of a call, in the order they are given
ManagerKwargs ==
    { <<>>,
      << <<"state", "failed">> >>,
      << <<"state", "analyzing">>, <<"bogus", "x">>, <<"error", "boom">> >>,
      << <<"updated_at", 0>>, <<"error", "late">> >>,
      << <<"error", "boom">>, <<"model_dump", "x">>, <<"state", "failed">> >> }

\* What setattr does with a name that is an attribute but not a field is the
\* model library's affair: it refuses the assignment with a ValueError, or it
\* sets the attribute on the instance.
SetAttrOutcomes == {"ValueError", "set"}

\* "for key, value in kwargs.items(): if hasattr(session, key): setattr(session, key, value)"
RECURSIVE SetAttrs(_, _, _)
SetAttrs(s, kwargs, lib) ==
    IF kwargs = <<>> THEN [session |-> s, raised |-> FALSE]
    ELSE LET key == Head(kwargs)[1]
             value == Head(kwargs)[2]
         IN  IF ~HasAttr(s, key) THEN SetAttrs(s, Tail(kwargs), lib)
             ELSE IF key \in DOMAIN s
                THEN SetAttrs([s EXCEPT ![key] = value], Tail(kwargs), lib)
             ELSE IF lib = "ValueError" THEN [session |-> s, raised |-> TRUE]
             ELSE SetAttrs((key :> value) @@ s, Tail(kwargs), lib)

ManagerCall(op, sid, ret, kwargs) ==
    /\ last' = [op |-> op, sid |-> sid, status |-> 0, ret |-> ret, kwargs |-> kwargs]
    /\ UNCHANGED <<settings, flow, history, riskVars, policyVars, busVars>>

\* create_session
CreateSession(text) ==
    /\ clock < MaxClock
    /\ clock' = clock + 1
    /\ \E sid \in ManagerIds \ DOMAIN sessions :
          /\ sessions' = (sid :> StampedSession(text, clock')) @@ sessions
          /\ ManagerCall("create_session", sid, "session", <<>>)

\* get_session
GetSession(sid) ==
    /\ UNCHANGED <<sessions, clock>>
    /\ ManagerCall("get_session", sid,
                   IF sid \in DOMAIN sessions THEN "session" ELSE "None", <<>>)

\* update_session(session_id, **kwargs)
ManagerUpdateSession(sid, kwargs, lib) ==
    IF sid \notin DOMAIN sessions
       THEN /\ UNCHANGED <<sessions, clock>>
            /\ ManagerCall("update_session", sid, "None", kwargs)
    ELSE /\ clock < MaxClock
         /\ LET r == SetAttrs(sessions[sid], kwargs, lib)
            IN  IF r.raised
                   THEN /\ sessions' = [sessions EXCEPT ![sid] = r.session]
                        /\ UNCHANGED clock
                        /\ ManagerCall("update_session", sid, "ValueError", kwargs)
                ELSE /\ clock' = clock + 1
                     /\ sessions' = [sessions EXCEPT ![sid] =
                                        [r.session EXCEPT !.updated_at = clock']]
                     /\ ManagerCall("update_session", sid, "session", kwargs)

InitManager ==
    /\ IdleProgram /\ IdleRisk /\ IdlePolicy /\ IdleBus
    /\ last = NoCall

NextManager ==
    \/ \E text \in {t \in Texts : t.len = t.stripped} : CreateSession(text)
    \/ \E sid \in ManagerIds : GetSession(sid)
    \/ \E sid \in ManagerIds, kwargs \in ManagerKwargs, lib \in SetAttrOutcomes :
          ManagerUpdateSession(sid, kwargs, lib)

SpecManager == InitManager /\ [][NextManager]_vars

----------------------------------------------------------------------------
(* streaming.py: ContractEventStream with subscribers (SpecBus)              *)
(*                                                                           *)
(* A subscriber is one subscribe() generator.  It runs from one yield to the *)
(* next when its consumer asks for the next event, and other tasks (emit,    *)
(* close, clear, other subscribers) run between two yields.                  *)

MaxSubscribers == 2   \* subscribe() calls made
MaxQueueSize == 2     \* max_queue_size given to ContractEventStream(...)
MaxEmits == 3         \* emit calls made

BusSessions == {"s1"}

BusEventTypes == {"intake", "completed", "error"}

\* EVENT_COMPLETED, EVENT_ERROR
TerminalTypes == {"completed", "error"}

\* The None that close() puts on a queue
Sentinel == [event_type |-> "None", session_id |-> "-", data |-> 0]

\* One list of queues shared by all sessions
RegisteredAnywhere(sid) == [n \in 1..Len(subs) |-> n]

\* self._queues.get(session_id, []): the subscribers whose queue is in the list
Registered(sid) == IF sid \in DOMAIN queues THEN queues[sid] ELSE <<>>

\* queue.put_nowait(item) with QueueFull caught, as emit and close call it
put_nowait(q, item) == IF Len(q) < MaxQueueSize THEN Append(q, item) ELSE q

\* A fan-out that an exception from a full queue would cut short
RECURSIVE FanOutRaising(_, _, _)
FanOutRaising(ss, ids, item) ==
    IF ids = <<>> THEN ss
    ELSE IF Len(ss[Head(ids)].q) >= MaxQueueSize THEN ss
    ELSE FanOutRaising([ss EXCEPT ![Head(ids)].q = put_nowait(@, item)],
                       Tail(ids), item)

\* "for queue in queues: try: queue.put_nowait(item) except QueueFull: ..."
RECURSIVE FanOut(_, _, _)
FanOut(ss, ids, item) ==
    IF ids = <<>> THEN ss
    ELSE FanOut([ss EXCEPT ![Head(ids)].q = put_nowait(@, item)], Tail(ids), item)

\* dict.pop(key, None), the dict modelled without the key that was never set
PopKeyKept(f, k) == f

PopKey(f, k) == [x \in DOMAIN f \ {k} |-> f[x]]

HasTerminal(events) ==
    \E j \in 1..Len(events) : events[j].event_type \in TerminalTypes

\* emit(session_id, event_type): the event carries the serial number of the call
\* where the code gives it a timestamp.  The callers of emit send nothing for a
\* session after its completed or error event (run emits it last).
BusEmit(sid, type) ==
    /\ emitted < MaxEmits
    /\ ~HasTerminal(get_history(sid))
    /\ emitted' = emitted + 1
    /\ LET ev == Event(sid, type, emitted + 1)
       IN  /\ history' = EmitOne(history, ev)
           /\ subs' = FanOut(subs, Registered(sid), ev)
    /\ last' = Outcome("emit", sid, 0)
    /\ UNCHANGED <<queues, settings, sessions, flow, clock, riskVars, policyVars>>

\* The list the replay loop of subscriber s iterates: the session's history
\* list itself while s.live, the list object it was handed otherwise
ReplayList(s) == IF s.live THEN get_history(s.sid) ELSE s.snap

\* A replay in the opposite order
NextPastReversed(list, i) == list[Len(list) - i]

\* "for past_event in self._history.get(session_id, [])": the item after i items
NextPast(list, i) == list[i + 1]

\* The locals of a generator that has left its replay loop (the list and the
\* index are dead), and of one that has ended (its queue is dropped with it)
PastReplay(s) == [s EXCEPT !.i = 0, !.live = FALSE, !.snap = <<>>]
Ended(s) == [PastReplay(s) EXCEPT !.pc = "done", !.q = <<>>]

\* The generator of subscriber s run from its present position to its next yield,
\* to its end, or to the point where it waits on an empty queue.
\*   pc "replay"  in the replay loop, i items yielded
\*   pc "get"     in the while loop, at queue.get()
\*   pc "stop"    suspended at the yield of a completed or error event
\*   pc "done"    the generator has ended, its finally clause has run
Resume(s, list) ==
    IF s.pc = "replay" /\ s.i < Len(list)
       THEN [s EXCEPT !.i = @ + 1, !.got = Append(@, NextPast(list, s.i))]
    ELSE IF s.pc = "stop"
       THEN Ended(s)
    ELSE IF s.q = <<>>
       THEN [PastReplay(s) EXCEPT !.pc = "get"]
    ELSE LET item == Head(s.q)
             t == [PastReplay(s) EXCEPT !.q = Tail(@)]
         IN  IF item = Sentinel
                THEN Ended(t)
             ELSE [t EXCEPT !.got = Append(@, item),
                            !.pc = IF item.event_type \in TerminalTypes
                                      THEN "stop" ELSE "get"]

\* subscribe's finally clause: "if queue in session_queues: session_queues.remove(queue)".
\* Every reader of _queues uses get(session_id, []) or setdefault, so a session
\* whose list has become empty is modelled as a session without a list.
Deregister(qs, sid, n) ==
    IF sid \notin DOMAIN qs THEN qs
    ELSE IF Remove(qs[sid], n) = <<>> THEN PopKey(qs, sid)
    ELSE [qs EXCEPT ![sid] = Remove(@, n)]

\* A subscriber can run unless it waits on an empty queue or has ended
CanRun(s) == s.pc # "done" /\ ~(s.pc = "get" /\ s.q = <<>>)

\* subscribe(session_id) up to its first yield: the queue is created and
\* registered, and the replay starts.  atjoin and closed record, for the
\* properties, the history at that moment and whether close() has met the queue.
Subscribe(sid) ==
    /\ Len(subs) < MaxSubscribers
    /\ LET n == Len(subs) + 1
           s == [sid |-> sid, pc |-> "replay", i |-> 0, q |-> <<>>, got |-> <<>>,
                 live |-> sid \in DOMAIN history, snap |-> <<>>,
                 atjoin |-> get_history(sid), closed |-> FALSE]
       IN  /\ subs' = Append(subs, Resume(s, ReplayList(s)))
           /\ queues' = IF sid \in DOMAIN queues
                           THEN [queues EXCEPT ![sid] = Append(@, n)]
                        ELSE (sid :> <<n>>) @@ queues
    /\ last' = Outcome("subscribe", sid, 0)
    /\ UNCHANGED <<emitted, progVars, riskVars, policyVars>>

\* The consumer of subscriber n asks for the next event
SubscriberNext(n) ==
    /\ n \in 1..Len(subs)
    /\ CanRun(subs[n])
    /\ LET s == Resume(subs[n], ReplayList(subs[n]))
       IN  /\ subs' = [subs EXCEPT ![n] = s]
           /\ queues' = IF s.pc = "done" THEN Deregister(queues, s.sid, n) ELSE queues
    /\ last' = Outcome("next", subs[n].sid, 0)
    /\ UNCHANGED <<emitted, progVars, riskVars, policyVars>>

\* close's loop over the session's queues
CloseQueues(ss, sid) ==
    FanOut([n \in 1..Len(ss) |->
                IF Contains(Registered(sid), n) THEN [ss[n] EXCEPT !.closed = TRUE]
                ELSE ss[n]],
           Registered(sid), Sentinel)

\* close(session_id); on a session without an entry in _queues it does nothing
Close(sid) ==
    /\ sid \in DOMAIN queues
    /\ subs' = CloseQueues(subs, sid)
    /\ queues' = PopKey(queues, sid)
    /\ last' = Outcome("close", sid, 0)
    /\ UNCHANGED <<emitted, progVars, riskVars, policyVars>>

\* The history list leaves the dict; a replay loop still iterating it keeps it
Detach(ss, sid) ==
    [n \in 1..Len(ss) |->
        IF ss[n].sid = sid /\ ss[n].live
           THEN [ss[n] EXCEPT !.live = FALSE, !.snap = get_history(sid)]
        ELSE ss[n]]

\* clear(session_id); on a session with neither queues nor history it does nothing
Clear(sid) ==
    /\ sid \in DOMAIN queues \/ sid \in DOMAIN history
    /\ subs' = Detach(CloseQueues(subs, sid), sid)
    /\ queues' = PopKey(queues, sid)
    /\ history' = PopKey(history, sid)
    /\ last' = Outcome("clear", sid, 0)
    /\ UNCHANGED <<emitted, settings, sessions, flow, clock, riskVars, policyVars>>

InitBus ==
    /\ IdleProgram /\ IdleRisk /\ IdlePolicy /\ IdleBus
    /\ last = NoCall

NextBus ==
    \/ \E sid \in BusSessions, type \in BusEventTypes : BusEmit(sid, type)
    \/ \E sid \in BusSessions : Subscribe(sid)
    \/ \E n \in 1..MaxSubscribers : SubscriberNext(n)
    \/ \E sid \in BusSessions : Close(sid)
    \/ \E sid \in BusSessions : Clear(sid)

\* Every consumer keeps asking for the next event
SpecBus ==
    /\ InitBus
    /\ [][NextBus]_vars
    /\ \A n \in 1..MaxSubscribers : WF_vars(SubscriberNext(n))

----------------------------------------------------------------------------
(* streaming.py: consumers that abandon their streams (SpecAbandon)          *)

\* The consumer of subscriber n gives its stream up: the generator is closed
\* where it is suspended.  In the replay loop, which stands before the try
\* statement, the generator ends there and its finally clause does not run;
\* inside the try statement the finally clause takes the queue off the list.
Abandon(n) ==
    /\ n \in 1..Len(subs)
    /\ subs[n].pc # "done"
    /\ IF subs[n].pc = "replay"
          THEN /\ subs' = [subs EXCEPT ![n] = [PastReplay(@) EXCEPT !.pc = "done"]]
               /\ UNCHANGED queues
       ELSE /\ subs' = [subs EXCEPT ![n] = Ended(@)]
            /\ queues' = Deregister(queues, subs[n].sid, n)
    /\ last' = Outcome("abandon", subs[n].sid, 0)
    /\ UNCHANGED <<emitted, progVars, riskVars, policyVars>>

NextAbandon ==
    \/ NextBus
    \/ \E n \in 1..MaxSubscribers : Abandon(n)

SpecAbandon == InitBus /\ [][NextAbandon]_vars

----------------------------------------------------------------------------
(* streaming.py: one ContractEventStream serving two sessions (SpecPair)     *)

PairSessions == {"s1", "s2"}

NextPair ==
    \/ \E sid \in PairSessions, type \in BusEventTypes : BusEmit(sid, type)
    \/ \E sid \in PairSessions : Subscribe(sid)
    \/ \E n \in 1..MaxSubscribers : SubscriberNext(n)
    \/ \E sid \in PairSessions : Close(sid)
    \/ \E sid \in PairSessions : Clear(sid)

SpecPair == InitBus /\ [][NextPair]_vars

----------------------------------------------------------------------------
(* api.py: the read endpoints and the stream endpoint, with the event stream *)
(* they subscribe to (SpecGate).  The runs appear here through their emit    *)
(* calls only, which reach the subscribers' queues.                          *)

\* A lookup that finds a session under every id
SessionFoundAlways(sid) == TRUE

\* "session = state.session_manager.get_session(contract_id)": session is not None
SessionFound(sid) == sid \in DOMAIN sessions

\* GET /contracts/{id}
GetContract(sid) ==
    IF ~SessionFound(sid) THEN Refused("get", sid, 404)
    ELSE /\ Call("get", sid, 200)
         /\ UNCHANGED <<sessions, flow, history>>

\* GET /contracts/{id}/report
GetContractReport(sid) ==
    IF ~SessionFound(sid) THEN Refused("report", sid, 404)
    ELSE /\ Call("report", sid, 200)
         /\ UNCHANGED <<sessions, flow, history>>

\* GET /contracts/{id}/stream: the response iterates subscribe(contract_id)
StreamContract(sid) ==
    IF ~SessionFound(sid) THEN Refused("stream", sid, 404)
    ELSE Subscribe(sid)

\* An emit call of the run of a submitted contract
GateEmit(sid, type) == sid \in DOMAIN sessions /\ BusEmit(sid, type)

\* The ids requests name: those of SessionIds, and one no session is ever given
GateIds == SessionIds \cup {"s9"}

InitGate ==
    /\ IdleProgram /\ IdleRisk /\ IdlePolicy /\ IdleBus
    /\ last = NoCall

NextGate ==
    \/ \E text \in Texts : Submit(text)
    \/ \E sid \in GateIds :
        \/ GetContract(sid)
        \/ GetContractReport(sid)
        \/ StreamContract(sid)
        \/ \E req \in ApproveRequests : ApproveContract(sid, req)
        \/ \E req \in RejectRequests : RejectContract(sid, req)
        \/ \E req \in RenegotiateRequests : RenegotiateContract(sid, req)
        \/ ExecuteContract(sid)
    \/ \E sid \in BusSessions, type \in BusEventTypes : GateEmit(sid, type)
    \/ \E n \in 1..MaxSubscribers : SubscriberNext(n)

SpecGate == InitGate /\ [][NextGate]_vars

----------------------------------------------------------------------------
(* Properties of the aggregate risk function (SpecRisk) *)

\* C8: a finding list with at least one Critical finding aggregates to High or
\* Critical, never to Low or Medium, and the empty list aggregates to Low.
C8_CriticalAtLeastHigh ==
    overall # "unset" =>
        /\ HasLevel(assessments, "critical") => overall \in {"high", "critical"}
        /\ assessments = <<>> => overall = "low"

\* C9: raising the severity of one finding, the others held fixed, never lowers
\* the aggregate in the order Low < Medium < High < Critical.
C9_Monotonic ==
    [][(last'.op = "raise_severity" /\ last.op = "calculate_risk_matrix")
          => SeverityRank(overall') >= SeverityRank(overall)]_vars

\* The baseline of a mean weight total/n: Low up to 1.5, Medium up to 2.2,
\* High up to 3.0, Critical above
Baseline(total, n) ==
    IF 10 * total <= 15 * n THEN "low"
    ELSE IF 10 * total <= 22 * n THEN "medium"
    ELSE IF 10 * total <= 30 * n THEN "high"
    ELSE "critical"

\* The higher of two levels in the order Low < Medium < High < Critical
Higher(a, b) == IF SeverityRank(b) > SeverityRank(a) THEN b ELSE a

\* The reference algorithm of the aggregate risk
ReferenceRisk(levels) ==
    IF levels = <<>> THEN "low"
    ELSE LET total == TotalWeight(levels)
             n == Len(levels)
         IN  IF \E i \in 1..n : levels[i] = "critical"
                THEN Higher(Baseline(total, n), "high")
             ELSE IF (\E i \in 1..n : levels[i] = "high") /\ total > 2 * n
                THEN "high"
             ELSE Baseline(total, n)

\* C24: for every finding list calculate_risk_matrix returns what the
\* reference algorithm returns.
C24_MatchesReference ==
    overall # "unset" => overall = ReferenceRisk(assessments)

----------------------------------------------------------------------------
(* Properties of the approval policy (SpecPolicy) *)

ChainLevels(chain) == [i \in 1..Len(chain) |-> chain[i].level]

StrictlyAscending(levels) ==
    \A i \in 1..Len(levels) - 1 :
        SeniorityIndex(levels[i]) < SeniorityIndex(levels[i + 1])

\* C10: the chain the approval policy returns is non-empty, ascends strictly in
\* seniority (so no level repeats), holds Auto only as the sole entry of a
\* Low-risk chain, and has at least three levels for Critical risk.
C10_ChainWellFormed ==
    last.op = "approval_crew_kickoff" =>
        LET levels == ChainLevels(chain_res)
        IN  /\ levels # <<>>
            /\ StrictlyAscending(levels)
            /\ Contains(levels, "auto") =>
                   (levels = <<"auto">> /\ chain_req.risk = "low")
            /\ chain_req.risk = "critical" => Len(levels) >= 3

\* A Low-risk contract of 50,000 whose Auto entry gave way to Manager.
C10_Witness ==
    /\ last.op = "approval_crew_kickoff"
    /\ chain_req.risk = "low"
    /\ chain_req.value >= ManagerThreshold
    /\ ChainLevels(chain_res) = <<"manager">>

----------------------------------------------------------------------------
(* Properties of the lifecycle run (Spec) *)

EveryStepIs(chain, decision) == \A i \in 1..Len(chain) : chain[i].decision = decision

PendingCount(chain) == Cardinality({i \in 1..Len(chain) : chain[i].decision = "pending"})

CountEvents(sid, type) ==
    Cardinality({i \in 1..Len(get_history(sid)) : get_history(sid)[i].event_type = type})

LastEvent(h, sid) == h[sid][Len(h[sid])]

\* The run has returned from ContractLifecycleFlow.run
Returned(f) == f.pc \in {"persist", "done"}

\* C1: a run state or a stored session in stage Executed has a non-empty approval
\* chain whose every decision is approved.
C1_ExecutedOnlyApproved ==
    \A sid \in DOMAIN flow :
        /\ flow[sid].stage = "executed" =>
               /\ flow[sid].approval_chain # <<>>
               /\ EveryStepIs(flow[sid].approval_chain, "approved")
        /\ sessions[sid].state = "executed" =>
               /\ sessions[sid].approval_chain # <<>>
               /\ EveryStepIs(sessions[sid].approval_chain, "approved")

\* C3: a run that took standard_review or full_negotiation without a provider
\* failure stays in stage AwaitingApproval with every step pending from the
\* moment it set that stage, and that is the stage its session is stored with.
C3_RunStopsAwaitingApproval ==
    \A sid \in DOMAIN flow :
        LET f == flow[sid]
        IN  (/\ f.pc \in {"execute", "complete", "persist", "done"}
             /\ f.error = "none"
             /\ risk_level_check(f.overall_risk) # "auto_approve")
            => /\ f.stage = "awaiting_approval"
               /\ f.approval_chain # <<>>
               /\ EveryStepIs(f.approval_chain, "pending")
               /\ f.pc = "done" => sessions[sid].state = "awaiting_approval"

SystemAutoChain(chain) ==
    /\ Len(chain) = 1
    /\ chain[1].level = "auto"
    /\ chain[1].decision = "approved"
    /\ chain[1].approver = "System (Auto-Approval)"

\* C4: a run whose aggregate risk is Low, under a ceiling of Low, Medium or High,
\* ends in stage Executed with a chain of exactly one Auto entry approved by the
\* System, no approve call having been accepted.
C4_LowRiskAutoExecuted ==
    \A sid \in DOMAIN flow :
        LET f == flow[sid]
        IN  (f.overall_risk = "low" /\ settings \in {"low", "medium", "high"})
            => /\ f.pc \notin {"route", "auto_approve"} =>
                      /\ f.error = "none"
                      /\ SystemAutoChain(f.approval_chain)
                      /\ CountEvents(sid, "approval_progress") = 0
                      /\ CountEvents(sid, "awaiting_approval") = 0
                      /\ CountEvents(sid, "approved") = 1
               /\ Returned(f) => f.stage = "executed"
               /\ f.pc = "done" =>
                      /\ sessions[sid].state = "executed"
                      /\ SystemAutoChain(sessions[sid].approval_chain)

C4_Witness ==
    /\ "s1" \in DOMAIN flow
    /\ flow["s1"].pc = "done"
    /\ flow["s1"].overall_risk = "low"
    /\ flow["s1"].risks = <<"low", "low">>
    /\ settings = "low"
    /\ sessions["s1"].state = "executed"

\* C5: a run whose text is shorter than 50 characters after strip() fails Intake:
\* it returns with stage Failed and an error text, the error event is the last
\* event and no completed event exists, no Version is recorded, and the session
\* is stored with stage Failed and that error text.
C5_ShortTextFailsIntake ==
    \A sid \in DOMAIN flow :
        LET f == flow[sid]
        IN  f.contract_text.stripped < MinTextLen
            => /\ f.pc \in {"intake", "persist", "done"}
               /\ Returned(f) =>
                      /\ f.stage = "failed"
                      /\ f.error # "none"
                      /\ f.versions = <<>>
                      /\ CountEvents(sid, "error") = 1
                      /\ CountEvents(sid, "completed") = 0
                      /\ LastEvent(history, sid).event_type = "error"
               /\ f.pc = "done" =>
                      /\ sessions[sid].state = "failed"
                      /\ sessions[sid].error = f.error
                      /\ sessions[sid].versions = <<>>

\* A text of 50 characters that strips to 49
C5_Witness ==
    /\ "s1" \in DOMAIN flow
    /\ flow["s1"].pc = "done"
    /\ flow["s1"].contract_text = [len |-> MinTextLen, stripped |-> MinTextLen - 1]
    /\ sessions["s1"].state = "failed"
    /\ sessions["s1"].error # "none"

\* A ceiling Low, Medium or High covers the risk levels up to itself
Covers(ceiling, risk) == SeverityRank(risk) <= SeverityRank(ceiling)

KnownCeilings == {"low", "medium", "high"}

\* C25: the step after risk assessment sends a Low run to auto_approve if the
\* configured ceiling covers Low and to standard_review if it does not, a
\* Medium run to standard_review and a High or Critical run to negotiation;
\* the auto_approve step sets the stage to Approved, and a run carries the
\* System approval only if its aggregate risk is Low and covered by the
\* ceiling.
C25_ThreeWayRouting ==
    [][/\ \A sid \in DOMAIN flow :
             (last'.op = "route" /\ last'.sid = sid /\ flow[sid].pc = "route") =>
                 LET risk == flow[sid].overall_risk
                     to == flow'[sid].pc
                 IN  /\ risk \in RiskLevels
                     /\ risk = "low" =>
                           IF settings \in KnownCeilings
                              THEN to = (IF Covers(settings, risk) THEN "auto_approve"
                                         ELSE "standard_review")
                           ELSE to \in {"auto_approve", "standard_review"}
                     /\ risk = "medium" => to = "standard_review"
                     /\ risk \in {"high", "critical"} => to = "negotiate"
                     /\ flow'[sid].stage = flow[sid].stage
       /\ \A sid \in DOMAIN flow :
             (last'.op = "auto_approve" /\ last'.sid = sid
                 /\ flow[sid].pc = "auto_approve") =>
                 /\ flow'[sid].stage = "approved"
                 /\ SystemAutoChain(flow'[sid].approval_chain)
       /\ \A sid \in DOMAIN flow' :
             SystemAutoChain(flow'[sid].approval_chain) =>
                 /\ flow'[sid].overall_risk = "low"
                 /\ settings \in KnownCeilings =>
                       Covers(settings, flow'[sid].overall_risk)]_vars

\* A Low run has been auto-approved under the ceiling Medium
C25_Witness ==
    /\ settings = "medium"
    /\ last = Outcome("auto_approve", "s1", 0)
    /\ "s1" \in DOMAIN flow
    /\ flow["s1"].overall_risk = "low"
    /\ flow["s1"].stage = "approved"
    /\ SystemAutoChain(flow["s1"].approval_chain)

----------------------------------------------------------------------------
(* Properties of the approval endpoints (SpecStore) *)

\* This step is a call of the endpoint op on session sid, answered with an HTTP
\* status (the steps of the run carry status 0).
Called(op, sid) ==
    /\ last'.op = op
    /\ last'.sid = sid
    /\ last'.status # 0
    /\ sid \in DOMAIN sessions

\* C2: an accepted approve call on a chain with n pending steps leaves n - 1
\* pending; for n > 1 the stage stays AwaitingApproval and approval_progress
\* names the next pending level; for n = 1 the stage becomes Approved and
\* approved is emitted.  So n calls in sequence reach Approved at the n-th.
C2_ApprovedAtLastPending ==
    [][\A sid \in SessionIds :
          (Called("approve", sid) /\ last'.status = 200) =>
              LET before == sessions[sid].approval_chain
                  after == sessions'[sid].approval_chain
                  n == PendingCount(before)
                  ev == LastEvent(history', sid)
              IN  /\ sessions[sid].state = "awaiting_approval"
                  /\ n >= 1
                  /\ PendingCount(after) = n - 1
                  /\ Len(history'[sid]) = Len(get_history(sid)) + 1
                  /\ n > 1 => /\ sessions'[sid].state = "awaiting_approval"
                              /\ ev.event_type = "approval_progress"
                              /\ ev.data = after[FirstPending(after)].level
                  /\ n = 1 => /\ sessions'[sid].state = "approved"
                              /\ ev.event_type = "approved"
      ]_vars

\* Three approve calls on a three-step chain
C2_Witness ==
    /\ "s1" \in DOMAIN sessions
    /\ sessions["s1"].state = "approved"
    /\ Len(sessions["s1"].approval_chain) = 3
    /\ last = Outcome("approve", "s1", 200)
    /\ Len(get_history("s1")) >= 3
    /\ LET t == EventTypes("s1")
           k == Len(t)
       IN  <<t[k - 2], t[k - 1], t[k]>> =
               <<"approval_progress", "approval_progress", "approved">>

\* C6: approve or reject outside AwaitingApproval, approve with no pending step,
\* execute outside Approved and renegotiate outside AwaitingApproval, Rejected
\* and Negotiating are answered 400 (a reject without comments 422) and leave
\* the session, the event history and the run untouched.
C6_WrongStageRefused ==
    [][\A sid \in SessionIds :
          LET state == sessions[sid].state
              wrong ==
                \/ /\ Called("approve", sid)
                   /\ \/ state # "awaiting_approval"
                      \/ PendingCount(sessions[sid].approval_chain) = 0
                \/ Called("reject", sid) /\ state # "awaiting_approval"
                \/ Called("execute", sid) /\ state # "approved"
                \/ /\ Called("renegotiate", sid)
                   /\ state \notin {"awaiting_approval", "rejected", "negotiating"}
          IN  wrong => /\ last'.status = 400 \/ (last'.op = "reject" /\ last'.status = 422)
                       /\ UNCHANGED <<sessions, history, flow>>
      ]_vars

\* reject on a session in stage Intake
C6_Witness ==
    /\ "s1" \in DOMAIN sessions
    /\ sessions["s1"].state = "intake"
    /\ last = Outcome("reject", "s1", 400)

\* C7: an accepted renegotiate call, made in stage AwaitingApproval, Rejected or
\* Negotiating, sets every step to pending with empty comments, appends one
\* Version numbered previous count + 1, leaves the stage AwaitingApproval and
\* emits one renegotiating event.
C7_RenegotiateResets ==
    [][\A sid \in SessionIds :
          (Called("renegotiate", sid) /\ last'.status = 200) =>
              LET before == sessions[sid]
                  after == sessions'[sid]
              IN  /\ before.state \in {"awaiting_approval", "rejected", "negotiating"}
                  /\ after.state = "awaiting_approval"
                  /\ Len(after.approval_chain) = Len(before.approval_chain)
                  /\ \A i \in 1..Len(after.approval_chain) :
                        /\ after.approval_chain[i].decision = "pending"
                        /\ after.approval_chain[i].comments = ""
                        /\ after.approval_chain[i].level = before.approval_chain[i].level
                  /\ Len(after.versions) = Len(before.versions) + 1
                  /\ SubSeq(after.versions, 1, Len(before.versions)) = before.versions
                  /\ after.versions[Len(after.versions)].version = Len(before.versions) + 1
                  /\ history'[sid] =
                         Append(get_history(sid), Event(sid, "renegotiating", ""))
      ]_vars

\* One step approved with comments, the next rejected, then renegotiate
C7_Witness ==
    /\ "s1" \in DOMAIN sessions
    /\ last = Outcome("renegotiate", "s1", 200)
    /\ Len(sessions["s1"].approval_chain) >= 2
    /\ sessions["s1"].approval_chain[1].approver = "alice"
    /\ Len(get_history("s1")) >= 3
    /\ LET t == EventTypes("s1")
           k == Len(t)
       IN  <<t[k - 2], t[k - 1], t[k]>> =
               <<"approval_progress", "rejected", "renegotiating">>

\* The order of the stages; Approved, Rejected and Renegotiating share a rank
StageRank(stage) ==
    CASE stage = "intake" -> 0
      [] stage = "analyzing" -> 1
      [] stage = "risk_assessing" -> 2
      [] stage = "negotiating" -> 3
      [] stage = "awaiting_approval" -> 4
      [] stage \in {"approved", "rejected", "renegotiating"} -> 5
      [] stage = "executed" -> 6

PermittedChange(a, b) ==
    \/ a = b
    \/ b = "failed"
    \/ a # "failed" /\ StageRank(b) > StageRank(a)
    \/ a = "renegotiating" /\ b = "awaiting_approval"
    \/ a = "rejected" /\ b = "renegotiating"

PermittedPath(stages) ==
    \A i \in 1..(Len(stages) - 1) : PermittedChange(stages[i], stages[i + 1])

\* C14: every change of a run's stage and of a stored session's stage is
\* forward in the stage order, a move to Failed, Renegotiating to
\* AwaitingApproval or Rejected to Renegotiating; an accepted renegotiate call
\* is taken with the two stage assignments it makes.
C14_StageOrder ==
    [][\A sid \in SessionIds :
          sid \in DOMAIN sessions =>
              /\ PermittedChange(flow[sid].stage, flow'[sid].stage)
              /\ IF Called("renegotiate", sid) /\ last'.status = 200
                    THEN /\ PermittedPath(<<sessions[sid].state>> \o RenegotiateStages)
                         /\ sessions'[sid].state = "awaiting_approval"
                 ELSE PermittedChange(sessions[sid].state, sessions'[sid].state)
      ]_vars

\* A rejected session taken back to AwaitingApproval by renegotiate
C14_Witness ==
    /\ "s1" \in DOMAIN sessions
    /\ last = Outcome("renegotiate", "s1", 200)
    /\ sessions["s1"].state = "awaiting_approval"
    /\ Len(get_history("s1")) >= 2
    /\ LET t == EventTypes("s1")
       IN  t[Len(t) - 1] = "rejected" /\ t[Len(t)] = "renegotiating"

\* No pending step stands before an approved or rejected one
ResolvedBeforePending(chain) ==
    \A i, j \in 1..Len(chain) :
        (i < j /\ chain[i].decision = "pending") => chain[j].decision = "pending"

\* The steps of a chain that stand before every pending step
ResolvedPrefix(chain) ==
    {i \in 1..Len(chain) : \A j \in 1..i : chain[j].decision # "pending"}

\* C15: after every step, in every chain the approved and rejected steps
\* precede the pending ones, in ascending level order; and an accepted approve
\* or reject call changes the first pending step and no other step.
C15_FrontToBack ==
    [][/\ \A sid \in DOMAIN sessions' :
            /\ ResolvedBeforePending(sessions'[sid].approval_chain)
            /\ ResolvedBeforePending(flow'[sid].approval_chain)
            /\ StrictlyAscending(ChainLevels(sessions'[sid].approval_chain))
       /\ \A sid \in SessionIds :
            ((Called("approve", sid) \/ Called("reject", sid)) /\ last'.status = 200) =>
                LET before == sessions[sid].approval_chain
                    after == sessions'[sid].approval_chain
                    first == Cardinality(ResolvedPrefix(before)) + 1
                IN  /\ Len(after) = Len(before)
                    /\ \A j \in 1..Len(before) : j # first => after[j] = before[j]
                    /\ first <= Len(before) =>
                          /\ before[first].decision = "pending"
                          /\ after[first].decision =
                                IF last'.op = "approve" THEN "approved" ELSE "rejected"
                          /\ after[first].level = before[first].level
      ]_vars

\* A three-step chain: first step approved, second rejected, third pending
C15_Witness ==
    /\ "s1" \in DOMAIN sessions
    /\ last = Outcome("reject", "s1", 200)
    /\ sessions["s1"].state = "rejected"
    /\ Len(sessions["s1"].approval_chain) = 3
    /\ [i \in 1..3 |-> sessions["s1"].approval_chain[i].decision] =
           <<"approved", "rejected", "pending">>

TerminalCount(sid) == CountEvents(sid, "completed") + CountEvents(sid, "error")

\* C16: every started run returns; until it has returned it has emitted no
\* completed or error event, and once it has returned it has emitted exactly
\* one, which is the last event of the session: error if and only if the stage
\* is Failed with an error text, completed if and only if no step raised.
C16_OneTerminalEvent ==
    /\ [](\A sid \in DOMAIN flow :
            LET f == flow[sid]
            IN  /\ ~Returned(f) => TerminalCount(sid) = 0
                /\ Returned(f) =>
                      /\ TerminalCount(sid) = 1
                      /\ LastEvent(history, sid).event_type \in {"completed", "error"}
                      /\ CountEvents(sid, "error") = 1 <=>
                             (f.stage = "failed" /\ f.error # "none")
                      /\ CountEvents(sid, "completed") = 1 <=> f.error = "none"
                      /\ f.error = "none" => f.stage # "failed")
    /\ \A sid \in SessionIds :
          (sid \in DOMAIN flow) ~> (sid \in DOMAIN flow /\ flow[sid].pc = "done")

\* A run that failed in a provider call after Intake had recorded Version 1
C16_Witness ==
    /\ "s1" \in DOMAIN flow
    /\ flow["s1"].pc = "done"
    /\ flow["s1"].stage = "failed"
    /\ flow["s1"].versions # <<>>
    /\ LastEvent(history, "s1").event_type = "error"
    /\ CountEvents("s1", "completed") = 0

\* C20: while a run is in flight, the stage of the stored session is the stage
\* the run has most recently entered.
C20_StoredStageFollowsRun ==
    \A sid \in DOMAIN flow :
        ~Returned(flow[sid]) => sessions[sid].state = flow[sid].stage

ConsecutiveIds(versions) == \A i \in 1..Len(versions) : versions[i].version = i

AppendedOne(old, new) ==
    /\ Len(new) = Len(old) + 1
    /\ SubSeq(new, 1, Len(old)) = old

\* C23: the i-th version of every version list, the run's and the stored
\* session's, has id i.  A step that changes the run's list appends one version
\* to it and is Intake, negotiation or the run's execute; a step that changes
\* the stored list appends one version to it and is renegotiate or the execute
\* action, or it is the write of the run's list to the store, which keeps what
\* the stored list held as its first entries.
C23_VersionsAppendOnly ==
    [][/\ \A sid \in DOMAIN flow' : ConsecutiveIds(flow'[sid].versions)
       /\ \A sid \in DOMAIN sessions' : ConsecutiveIds(sessions'[sid].versions)
       /\ \A sid \in DOMAIN flow :
             \/ flow'[sid].versions = flow[sid].versions
             \/ /\ AppendedOne(flow[sid].versions, flow'[sid].versions)
                /\ last'.op \in {"intake", "negotiate", "execute"}
                /\ last'.status = 0
       /\ \A sid \in DOMAIN sessions :
             \/ sessions'[sid].versions = sessions[sid].versions
             \/ /\ AppendedOne(sessions[sid].versions, sessions'[sid].versions)
                /\ last'.op \in {"renegotiate", "execute"}
                /\ last'.status = 200
             \/ /\ last'.op \in {"persist", "update_session"}
                /\ sessions'[sid].versions = flow[sid].versions
                /\ SubSeq(flow[sid].versions, 1, Len(sessions[sid].versions))
                       = sessions[sid].versions]_vars

\* A negotiated contract has been renegotiated: Version 3 follows the versions
\* of Intake and of the negotiation
C23_Witness ==
    /\ last = Outcome("renegotiate", "s1", 200)
    /\ "s1" \in DOMAIN sessions
    /\ Len(sessions["s1"].versions) = 3
    /\ sessions["s1"].negotiations > 0
    /\ sessions["s1"].versions[3].version = 3

\* Step j of a chain is pending and no step before it is
IsFirstPending(chain, j) ==
    /\ chain[j].decision = "pending"
    /\ \A k \in 1..(j - 1) : chain[k].decision # "pending"

\* C29: a reject call that is accepted finds the session in AwaitingApproval,
\* turns the decision of the first pending step to rejected and leaves every
\* other step as it was, leaves the versions and the other fields of the
\* session as they were, sets the stage to Rejected and appends one rejected
\* event to the session's history.
C29_RejectFirstPendingOnly ==
    [][\A sid \in SessionIds :
          (Called("reject", sid) /\ last'.status = 200) =>
              LET old == sessions[sid]
                  new == sessions'[sid]
              IN  /\ old.state = "awaiting_approval"
                  /\ new.state = "rejected"
                  /\ Len(new.approval_chain) = Len(old.approval_chain)
                  /\ \A j \in 1..Len(old.approval_chain) :
                        IF IsFirstPending(old.approval_chain, j)
                           THEN /\ new.approval_chain[j].decision = "rejected"
                                /\ new.approval_chain[j].level = old.approval_chain[j].level
                        ELSE new.approval_chain[j] = old.approval_chain[j]
                  /\ new.versions = old.versions
                  /\ \A k \in DOMAIN old \ {"state", "approval_chain"} : new[k] = old[k]
                  /\ Len(history'[sid]) = Len(get_history(sid)) + 1
                  /\ SubSeq(history'[sid], 1, Len(get_history(sid))) = get_history(sid)
                  /\ LastEvent(history', sid).event_type = "rejected"
                  /\ flow' = flow]_vars

\* The second step of a chain of three has been rejected after the first was
\* approved, the third still pending
C29_Witness ==
    /\ last = Outcome("reject", "s1", 200)
    /\ "s1" \in DOMAIN sessions
    /\ sessions["s1"].state = "rejected"
    /\ Len(sessions["s1"].approval_chain) >= 3
    /\ sessions["s1"].approval_chain[1].decision = "approved"
    /\ sessions["s1"].approval_chain[2].decision = "rejected"
    /\ sessions["s1"].approval_chain[3].decision = "pending"

----------------------------------------------------------------------------
(* Properties of the event stream (SpecBus) *)

Min(a, b) == IF a < b THEN a ELSE b

\* C11: a subscriber that joined when k events were in the session's history
\* receives those k events, in emission order, as its first k events, and has
\* received all k before it takes anything from its queue.
C11_ReplayFirst ==
    \A n \in 1..Len(subs) :
        LET s == subs[n]
            k == Len(s.atjoin)
        IN  /\ \A j \in 1..Min(k, Len(s.got)) : s.got[j] = s.atjoin[j]
            /\ s.pc # "replay" => Len(s.got) >= k

\* One subscriber joined after the first event and went on to receive the
\* second; another joined after both and received them in order.
C11_Witness ==
    \E a, b \in 1..Len(subs) :
        /\ Len(subs[a].atjoin) = 1
        /\ Len(subs[a].got) = 2
        /\ subs[a].got[1] = subs[a].atjoin[1]
        /\ subs[a].got[2].data = 2
        /\ Len(subs[b].atjoin) = 2
        /\ subs[b].got = subs[b].atjoin

\* Subscriber n exists and its queue is in its session's list
Active(n) ==
    /\ n \in 1..Len(subs)
    /\ subs[n].pc # "done"
    /\ Contains(Registered(subs[n].sid), n)

\* Subscriber n waits in queue.get() on an empty queue
Waiting(n) == n \in 1..Len(subs) /\ subs[n].pc = "get" /\ subs[n].q = <<>>

\* C12: a subscriber that was active when a completed or error event was
\* emitted for its session (the event is in the history and was not there when
\* it joined) goes on to end its stream: while it is still registered it is
\* never left waiting on an empty queue, which nothing would fill any more.
C12_TerminalEndsStreams ==
    \A n \in 1..Len(subs) :
        (/\ Active(n)
         /\ ~HasTerminal(subs[n].atjoin)
         /\ HasTerminal(get_history(subs[n].sid)))
        => ~Waiting(n)

\* C13: a subscriber to which a completed or error event has been delivered,
\* from its queue or from the replayed history, ends its stream: it is never
\* left waiting on its queue after that delivery.
C13_TerminalDeliveredEnds ==
    \A n \in 1..Len(subs) : HasTerminal(subs[n].got) => ~Waiting(n)

\* C17: once close has been called for a session, every subscriber that was
\* registered for it goes on to end its stream, whatever its queue held at the
\* time (it is never left waiting on an empty queue that close has forgotten),
\* and the session's subscriber list is empty after the call.
C17_CloseEndsStreams ==
    /\ \A n \in 1..Len(subs) : subs[n].closed => ~Waiting(n)
    /\ last.op \in {"close", "clear"} => Registered(last.sid) = <<>>

IsPrefix(a, b) == Len(a) <= Len(b) /\ SubSeq(b, 1, Len(a)) = a

\* C18: close leaves every history as it was, clear leaves the session without
\* history, a subscriber that joins replays the history as it is at that moment
\* (all of it after a close, nothing after a clear), and any step other than
\* clear only ever appends to a history.
C18_HistoryAppendOnly ==
    [][/\ last'.op = "close" => history' = history
       /\ last'.op = "clear" =>
             /\ last'.sid \notin DOMAIN history'
             /\ last'.sid \notin DOMAIN queues'
             /\ \A sid \in DOMAIN history \ {last'.sid} :
                   sid \in DOMAIN history' /\ history'[sid] = history[sid]
       /\ last'.op # "clear" =>
             \A sid \in DOMAIN history :
                 sid \in DOMAIN history' /\ IsPrefix(history[sid], history'[sid])
       /\ (last'.op = "subscribe" /\ Len(subs') = Len(subs) + 1) =>
             /\ subs'[Len(subs')].atjoin = get_history(last'.sid)
             /\ IsPrefix(subs'[Len(subs')].got, get_history(last'.sid))]_vars

\* A session with emitted events has been cleared and a subscriber that joined
\* afterwards has nothing to replay
C18_Witness ==
    /\ emitted > 0
    /\ "s1" \notin DOMAIN history
    /\ \E n \in 1..Len(subs) :
          /\ Active(n)
          /\ ~subs[n].closed
          /\ subs[n].atjoin = <<>>
          /\ subs[n].got = <<>>
          /\ Waiting(n)
    /\ \E n \in 1..Len(subs) : subs[n].closed /\ subs[n].atjoin # <<>>

\* C19: an emit appends its event to the session's history and to the queue of
\* every registered subscriber whose queue is not full; a full queue stays as
\* it is, and neither stops the emit nor keeps the event from the others.
C19_EmitBestEffort ==
    [][(last'.op = "emit" /\ emitted' = emitted + 1) =>
          /\ last'.sid \in DOMAIN history'
          /\ Len(history'[last'.sid]) = Len(get_history(last'.sid)) + 1
          /\ IsPrefix(get_history(last'.sid), history'[last'.sid])
          /\ LET ev == history'[last'.sid][Len(history'[last'.sid])]
             IN  /\ ev.session_id = last'.sid
                 /\ Len(subs') = Len(subs)
                 /\ \A n \in 1..Len(subs) :
                       subs'[n].q =
                           IF /\ Contains(Registered(last'.sid), n)
                              /\ Len(subs[n].q) < MaxQueueSize
                              THEN Append(subs[n].q, ev)
                           ELSE subs[n].q]_vars

\* The latest event went to the second subscriber while the queue of the
\* first was full with the events before it
C19_Witness ==
    /\ last.op = "emit"
    /\ Len(get_history("s1")) = MaxQueueSize + 1
    /\ Len(subs) = 2
    /\ Active(1) /\ Active(2)
    /\ subs[1].q = SubSeq(get_history("s1"), 1, MaxQueueSize)
    /\ subs[1].got = <<>>
    /\ subs[2].q = <<get_history("s1")[MaxQueueSize + 1]>>

----------------------------------------------------------------------------
(* Properties of the session manager (SpecManager) *)

Supplied(kwargs, key) == \E i \in 1..Len(kwargs) : kwargs[i][1] = key

\* The value a dict of keyword arguments holds for a key
SuppliedValue(kwargs, key) ==
    kwargs[CHOOSE i \in 1..Len(kwargs) :
               /\ kwargs[i][1] = key
               /\ \A j \in (i + 1)..Len(kwargs) : kwargs[j][1] # key][2]

\* C21: update_session on a known id returns the session, having set exactly
\* the supplied fields of the schema, added nothing to the session, left the
\* other fields as they were and set updated_at to the time of the call; on an
\* unknown id update_session and get_session return None, and no stored
\* session changes.
C21_UpdateAppliesSchemaFields ==
    [][/\ (last'.op = "update_session" /\ last'.sid \in DOMAIN sessions) =>
             /\ last'.ret = "session"
             /\ DOMAIN sessions' = DOMAIN sessions
             /\ DOMAIN sessions'[last'.sid] = DOMAIN sessions[last'.sid]
             /\ \A k \in DOMAIN sessions[last'.sid] \ {"updated_at"} :
                   sessions'[last'.sid][k] =
                       IF Supplied(last'.kwargs, k)
                          THEN SuppliedValue(last'.kwargs, k)
                       ELSE sessions[last'.sid][k]
             /\ sessions'[last'.sid].updated_at = clock'
             /\ clock' > clock
             /\ \A other \in DOMAIN sessions \ {last'.sid} :
                   sessions'[other] = sessions[other]
       /\ (last'.op \in {"update_session", "get_session"}
             /\ last'.sid \notin DOMAIN sessions) =>
             /\ last'.ret = "None"
             /\ sessions' = sessions]_vars

----------------------------------------------------------------------------
(* Properties of the endpoints on unknown ids (SpecGate) *)

EndpointOps == {"get", "stream", "report", "approve", "reject", "renegotiate", "execute"}

\* C22: a request that reaches an endpoint with an id the store does not know
\* is answered 404 and leaves the sessions, the runs, the histories, the
\* subscriber lists and the subscribers as they were; a subscriber is only ever
\* registered for a stored session.  (A request whose body fails validation is
\* answered 422 before the endpoint is entered.)
C22_UnknownIdNotFound ==
    [][/\ (/\ last'.op \in EndpointOps
           /\ last'.status \notin {0, 422}
           /\ last'.sid \notin DOMAIN sessions) =>
             /\ last'.status = 404
             /\ UNCHANGED <<sessions, flow, history, queues, subs, emitted>>
       /\ last'.op = "subscribe" => last'.sid \in DOMAIN sessions
       /\ \A sid \in DOMAIN queues' : sid \in DOMAIN sessions']_vars

\* The stream of an unknown id has been refused while a stored session has a
\* subscriber and events
C22_Witness ==
    /\ last = Outcome("stream", "s9", 404)
    /\ "s1" \in DOMAIN sessions
    /\ Len(subs) = 1
    /\ subs[1].sid = "s1"
    /\ Registered("s1") = <<1>>
    /\ Registered("s9") = <<>>
    /\ get_history("s1") # <<>>
    /\ "s9" \notin DOMAIN history

----------------------------------------------------------------------------
(* Properties of the events of a run (Spec) *)

StageEvents ==
    {"intake", "analyzing", "extracting_clauses", "clauses_extracted",
     "analysis_complete", "risk_assessing", "risk_assessment_done", "approved",
     "awaiting_approval", "negotiating", "negotiation_strategy_ready", "completed"}

IsStageEvent(type) == type \in StageEvents

\* The events of a session's history that are among StageEvents, by type
StageEventsOf(sid) == SelectSeq(EventTypes(sid), IsStageEvent)

EventsToRisk ==
    <<"intake", "analyzing", "extracting_clauses", "clauses_extracted",
      "analysis_complete", "risk_assessing", "risk_assessment_done">>

BranchEvents(risk) ==
    IF risk = "low" THEN <<"approved">>
    ELSE IF risk = "medium" THEN <<"awaiting_approval">>
    ELSE <<"negotiating", "negotiation_strategy_ready", "awaiting_approval">>

\* C26: while no step of a run has raised, the events named in StageEvents
\* stand in the session's history in this order: those of Intake, analysis and
\* risk assessment, then those of the branch the aggregate risk selects, then
\* completed; a run that has returned has emitted all of them, completed being
\* the last event of the history, and negotiating events are in the history
\* only of a run of High or Critical risk.
C26_EventOrder ==
    \A sid \in DOMAIN flow :
        LET f == flow[sid]
            seen == StageEventsOf(sid)
            whole == EventsToRisk \o BranchEvents(f.overall_risk) \o <<"completed">>
        IN  f.error = "none" =>
              /\ f.overall_risk = "none" => IsPrefix(seen, EventsToRisk)
              /\ f.overall_risk # "none" => IsPrefix(seen, whole)
              /\ Returned(f) =>
                    /\ seen = whole
                    /\ LastEvent(history, sid).event_type = "completed"
              /\ (\E i \in 1..Len(seen) :
                     seen[i] \in {"negotiating", "negotiation_strategy_ready"})
                    => f.overall_risk \in {"high", "critical"}

\* A run of High risk has returned after negotiation
C26_Witness ==
    /\ "s1" \in DOMAIN flow
    /\ flow["s1"].pc = "done"
    /\ flow["s1"].error = "none"
    /\ flow["s1"].overall_risk = "high"
    /\ Contains(EventTypes("s1"), "negotiation_strategy_ready")
    /\ LastEvent(history, "s1").event_type = "completed"

\* C27: the intake event is in the history only of a run whose text has
\* passed Intake's validation: a run that failed that validation (it has
\* recorded no version) has the error event and no intake event.
C27_IntakeEventAfterValidation ==
    \A sid \in DOMAIN flow :
        (/\ flow[sid].stage = "failed"
         /\ flow[sid].versions = <<>>
         /\ ~IntakeValid(flow[sid].contract_text)) =>
            /\ Contains(EventTypes(sid), "error")
            /\ ~Contains(EventTypes(sid), "intake")

\* What a run has written on its state, apart from stage, error and position
Written(f) ==
    <<f.versions, f.analysis, f.risks, f.overall_risk, f.negotiations, f.approval_chain>>

ProviderSteps == {"analyze", "negotiate", "standard_review", "multi_level_approval"}

\* C28: the step in which a provider call raises leaves what the run had
\* written, sets the stage to Failed with the error text, emits the error
\* event as the session's last event and ends the run; a failed run takes no
\* further step but the write of its state to the stored session, which then
\* holds the Failed stage, the error text and everything written before the
\* exception; nothing is emitted for it afterwards and it never runs again.
C28_ProviderFailureAborts ==
    [][\A sid \in DOMAIN flow :
          /\ (flow[sid].error = "none" /\ flow'[sid].error = "provider error") =>
                /\ last'.op \in ProviderSteps
                /\ last'.sid = sid
                /\ Written(flow'[sid]) = Written(flow[sid])
                /\ flow'[sid].stage = "failed"
                /\ flow'[sid].pc = "persist"
                /\ LastEvent(history', sid).event_type = "error"
                /\ LastEvent(history', sid).data = "provider error"
                /\ Len(history'[sid]) <= Len(get_history(sid)) + 3
                /\ sessions' = sessions
          /\ flow[sid].error # "none" =>
                /\ Written(flow'[sid]) = Written(flow[sid])
                /\ flow'[sid].stage = "failed"
                /\ flow'[sid].error = flow[sid].error
                /\ flow'[sid].pc \in {"persist", "done"}
                /\ history'[sid] = history[sid]
                /\ flow'[sid].pc = "done" =>
                      /\ sessions'[sid].state = "failed"
                      /\ sessions'[sid].error = flow[sid].error
                      /\ sessions'[sid].versions = flow[sid].versions
                      /\ sessions'[sid].analysis = flow[sid].analysis
                      /\ sessions'[sid].risk_assessments = flow[sid].risks
                      /\ sessions'[sid].overall_risk = flow[sid].overall_risk
                      /\ sessions'[sid].negotiations = flow[sid].negotiations]_vars

\* The approval policy raised after negotiation: the stored session is Failed
\* and holds the versions, the findings and the positions written before
C28_Witness ==
    /\ "s1" \in DOMAIN flow
    /\ flow["s1"].pc = "done"
    /\ flow["s1"].error = "provider error"
    /\ sessions["s1"].state = "failed"
    /\ sessions["s1"].error = "provider error"
    /\ Len(sessions["s1"].versions) = 2
    /\ sessions["s1"].risk_assessments # <<>>
    /\ sessions["s1"].negotiations > 0
    /\ sessions["s1"].approval_chain = <<>>
    /\ LastEvent(history, "s1").event_type = "error"
    /\ ~Contains(EventTypes("s1"), "awaiting_approval")

----------------------------------------------------------------------------
(* Properties of emit interleaved with a subscriber's replay (SpecBus) *)

\* The queue of subscriber n has never been full: fewer events than it holds
\* have been emitted since n joined, and close has not put its None on it.
\* Every emit so far is in the history, which has therefore not been cleared.
NeverFull(n) ==
    /\ ~subs[n].closed
    /\ Len(get_history(subs[n].sid)) = emitted
    /\ emitted - Len(subs[n].atjoin) < MaxQueueSize

\* C30: a subscriber whose queue has never been full has received the events
\* of its session once each and in the order of their emission: what it has
\* received is the history up to some event, and when it waits on its empty
\* queue without having met a completed or error event it has received the
\* whole history.
C30_ExactlyOnceInOrder ==
    \A n \in 1..Len(subs) :
        NeverFull(n) =>
            /\ IsPrefix(subs[n].got, get_history(subs[n].sid))
            /\ (Waiting(n) /\ ~HasTerminal(subs[n].got)) =>
                  subs[n].got = get_history(subs[n].sid)

----------------------------------------------------------------------------
(* Properties of runs with a Critical finding (Spec) *)

\* C31: a run whose findings include a Critical one is not sent to
\* auto_approve and never carries the System approval, however many Low
\* findings accompany it.
C31_CriticalNeverAutoApproved ==
    \A sid \in DOMAIN flow :
        HasLevel(flow[sid].risks, "critical") =>
            /\ flow[sid].pc # "auto_approve"
            /\ ~SystemAutoChain(flow[sid].approval_chain)
            /\ ~SystemAutoChain(sessions[sid].approval_chain)

----------------------------------------------------------------------------
(* Properties of the approval chain by stage (SpecStore) *)

ChainOfStage(stage, chain) ==
    /\ stage = "approved" =>
          /\ chain # <<>>
          /\ \A i \in 1..Len(chain) : chain[i].decision = "approved"
    /\ stage = "rejected" =>
          \E r \in 1..Len(chain) :
              /\ chain[r].decision = "rejected"
              /\ \A i \in 1..(r - 1) : chain[i].decision = "approved"
              /\ \A i \in (r + 1)..Len(chain) : chain[i].decision = "pending"
    /\ stage = "awaiting_approval" =>
          /\ \E i \in 1..Len(chain) : chain[i].decision = "pending"
          /\ \A i \in 1..Len(chain) : chain[i].decision # "rejected"

----------------------------------------------------------------------------
(* Properties of finished and of running sessions (SpecStore, Spec) *)

ActionOps == {"approve", "reject", "renegotiate", "execute"}

\* C33: from a state in which the stored session is Executed or Failed, no
\* step changes its stage, its approval chain or its versions, and an approve,
\* reject, renegotiate or execute call on it is refused.
C33_ExecutedFailedAbsorbing ==
    [][\A sid \in DOMAIN sessions :
          sessions[sid].state \in {"executed", "failed"} =>
              /\ sessions'[sid].state = sessions[sid].state
              /\ sessions'[sid].approval_chain = sessions[sid].approval_chain
              /\ sessions'[sid].versions = sessions[sid].versions
              /\ \A op \in ActionOps :
                    Called(op, sid) => last'.status \in {400, 422}]_vars

\* A second execute call on a contract that approvers approved and the execute
\* action executed has been refused
C33_Witness ==
    /\ last = Outcome("execute", "s1", 400)
    /\ "s1" \in DOMAIN sessions
    /\ sessions["s1"].state = "executed"
    /\ ~SystemAutoChain(sessions["s1"].approval_chain)
    /\ AllApproved(sessions["s1"].approval_chain)
    /\ Len(sessions["s1"].versions) >= 2

\* The run of a session is in flight: started, its state not yet persisted
InFlight(sid) == sid \in DOMAIN flow /\ flow[sid].pc # "done"

\* C34: while the run of a session is in flight no approve, reject,
\* renegotiate or execute call on it is accepted and no call changes the stored
\* session, and the write of the run's final state finds the stored session as
\* create_session made it, with no chain and no version an accepted action
\* could have written.
C34_NoActionDuringRun ==
    [][\A sid \in DOMAIN sessions :
          InFlight(sid) =>
              /\ \A op \in ActionOps : Called(op, sid) => last'.status \in {400, 422}
              /\ last'.status # 0 => sessions'[sid] = sessions[sid]
              /\ sessions'[sid] # sessions[sid] =>
                    /\ last'.op \in {"persist", "update_session"}
                    /\ sessions[sid] = NewSession(sessions[sid].contract_text)
                    /\ ~InFlight(sid)']_vars

\* An approve call has been refused while the run stands in AwaitingApproval
C34_Witness ==
    /\ last = Outcome("approve", "s1", 400)
    /\ "s1" \in DOMAIN flow
    /\ flow["s1"].stage = "awaiting_approval"
    /\ flow["s1"].pc = "execute"
    /\ PendingCount(flow["s1"].approval_chain) > 0
    /\ sessions["s1"].state = "intake"

----------------------------------------------------------------------------
(* Properties of subscribers whose iteration has ended (SpecAbandon) *)

\* C35: the queue of a subscriber whose iteration has ended, on a completed or
\* error event, on the None of close, or because its consumer abandoned the
\* stream, is not in the subscriber list of its session.
C35_EndedNotRegistered ==
    \A n \in 1..Len(subs) :
        subs[n].pc = "done" => ~Contains(Registered(subs[n].sid), n)

----------------------------------------------------------------------------
(* Properties of two sessions on one event stream (SpecPair) *)

\* Every event subscriber s has received or has on its queue is of its session
OwnEventsOnly(s) ==
    /\ \A i \in 1..Len(s.got) : s.got[i].session_id = s.sid
    /\ \A i \in 1..Len(s.q) : s.q[i] = Sentinel \/ s.q[i].session_id = s.sid

\* C36: an emit, close or clear for one session leaves the history, the
\* subscriber list and every subscriber of any other session as they were, and
\* no subscriber ever holds or has received an event of a session other than
\* its own.
C36_SessionsIsolated ==
    [][/\ last'.op \in {"emit", "close", "clear"} =>
             \A B \in PairSessions :
                 B # last'.sid =>
                     /\ (B \in DOMAIN history') = (B \in DOMAIN history)
                     /\ B \in DOMAIN history => history'[B] = history[B]
                     /\ (B \in DOMAIN queues') = (B \in DOMAIN queues)
                     /\ B \in DOMAIN queues => queues'[B] = queues[B]
                     /\ \A n \in 1..Len(subs) : subs[n].sid = B => subs'[n] = subs[n]
       /\ \A n \in 1..Len(subs') : OwnEventsOnly(subs'[n])]_vars

\* Each of two sessions has a subscriber that has received an event of its
\* own, and the last emit was for the first of them
C36_Witness ==
    /\ last = Outcome("emit", "s1", 0)
    /\ Len(subs) = 2
    /\ subs[1].sid = "s1" /\ subs[2].sid = "s2"
    /\ subs[1].got # <<>> /\ subs[2].got # <<>>
    /\ subs[1].q # <<>>
    /\ Active(1) /\ Active(2)
    /\ get_history("s1") # <<>> /\ get_history("s2") # <<>>

====
